---- MODULE Spec2Model ----
(***************************************************************************)
(* Darth Invader: the scenario simulation engine (seeded random source,    *)
(* packets, the four attack scenarios) and the driver that runs it         *)
(* (SimulationController, with the platform's animation frames and         *)
(* setTimeout callbacks).                                                  *)
(*                                                                         *)
(* Number representation.  The program computes in IEEE doubles; the model *)
(* keeps integers:                                                         *)
(*   - a value of SeededRandom.next() is kept in millionths (0..999999);   *)
(*   - Packet.progress is kept in thousandths, Packet.speed in tenths, so  *)
(*     that "progress += speed * 0.01" is "progress + speed";              *)
(*   - metrics.serverLoad is kept in sixths of a percent (LoadScale), the  *)
(*     common denominator of the four divisors 50, 20, 30 and 40;          *)
(*   - AppState.speed is kept in tenths, Simulation.time in tenths of ms.  *)
(* The accumulated double of progress carries a small positive rounding    *)
(* error (45 additions of 0.02 give 0.9000000000000005, 50 give            *)
(* 1.0000000000000004), which is why "progress > 0.9" is modelled as       *)
(* "progress >= 900" and "progress >= 1" as "progress >= 1000".            *)
(***************************************************************************)
EXTENDS Integers, Sequences, FiniteSets, TLC

VARIABLES
  app,      \* AppState: scenario, run flags, speed, intensity, seed, chart
  sims,     \* every Simulation object constructed so far, by generation
  rng,      \* AppState.rng, the one SeededRandom shared by all simulations
  timers,   \* pending setTimeout callbacks, in scheduling order
  frames,   \* handles of the requestAnimationFrame callbacks still pending
  period,   \* real milliseconds between two animation frames of the display
  nticks,   \* number of Simulation.update() calls made so far
  last,     \* the handler that ran last
  twin,     \* a second engine fed the same update() calls (SpecTwin)
  held,     \* what the program's callers hold: snapshots returned, files
            \* saved, files a FileReader is reading
  ninputs   \* number of slider and seed input events handled so far

vars == <<app, sims, rng, timers, frames, period, nticks, last, twin, held, ninputs>>

----------------------------------------------------------------------------
(* Bounds of the model *)

MaxTicks == 104        \* update() calls explored in one behaviour
MaxLoads == 3          \* Simulation objects constructed in one behaviour
                       \* (under the full driver: and input events handled,
                       \* files saved and files being read)
MaxAppTicks == 2       \* update() calls explored under the full driver
MaxTwinTicks == 8      \* update() calls explored with two engines
MaxUnitCalls == 4      \* calls made on the classes called directly
MaxHoldTicks == 3      \* update() and createPacket calls while snapshots are held
MaxHeld == 2           \* snapshots a caller holds at a time
MaxFiles == 2          \* session files the user keeps
MaxReads == 1          \* files being read by a FileReader at one time
MaxSessionTicks == 2   \* update() calls explored between exports and imports

Seeds == {42, 12345}
Intensities == {0, 50, 100}
Speeds == {5, 10, 20}       \* AppState.speed 0.5, 1.0, 2.0, in tenths
Periods == {7, 16, 600}     \* 144 Hz display, 60 Hz display, throttled tab
ScenarioNames == {"ddos", "mitm", "firewall", "arpSpoof"}

LoadScale == 6
Million == 1000000

----------------------------------------------------------------------------
(* SeededRandom *)

\* floor(1000000 * frac(sin(seed) * 10000)) for seed = 42 .. 1041
SinTab42 ==
  <<
    784520, 252573, 19251, 35245, 883476, 731227, 453386, 473472, 251462, 291758,
    275920, 251501, 109511, 448266, 489979, 647552, 726480, 380071, 893788, 822299,
    193033, 557003, 260381, 286794, 488459, 800210, 723193, 151862, 906815, 546532,
    233627, 280431, 537395, 183645, 76368, 201585, 784559, 873312, 113460, 120057,
    287824, 644611, 903200, 243800, 415529, 821633, 983027, 694058, 966636, 875117,
    339303, 178587, 480145, 617147, 877454, 77390, 181280, 931658, 343588, 257871,
    267913, 886314, 775968, 647164, 574999, 817445, 185054, 426066, 573219, 485513,
    43956, 180941, 803886, 353340, 613933, 20590, 478309, 958985, 111842, 152247,
    131538, 965093, 130131, 595408, 908256, 300672, 377105, 266079, 940498, 966128,
    835871, 657562, 248164, 686861, 667932, 855454, 477404, 801312, 396594, 713653,
    49928, 546391, 784061, 451620, 691731, 440218, 666056, 513519, 235703, 498814,
    205237, 5807, 796627, 880172, 153811, 514571, 240965, 197317, 252583, 922144,
    496492, 898241, 327780, 972794, 915637, 498131, 267112, 1323, 494554, 908679,
    591401, 894670, 380257, 654048, 522360, 897877, 753358, 221672, 473642, 485998,
    189340, 804082, 843832, 211800, 760624, 289766, 763309, 179536, 992786, 85484,
    616423, 434253, 136707, 546679, 300555, 58429, 214083, 11639, 27027, 97492,
    184068, 97001, 203593, 24922, 580968, 949724, 679301, 666417, 185183, 521461,
    529062, 293801, 994513, 456219, 584883, 183905, 754726, 852585, 987124, 387978,
    508382, 534852, 790026, 51219, 561828, 585970, 230624, 623697, 357959, 158102,
    232767, 392818, 166912, 866409, 679105, 421302, 238868, 906812, 451549, 617132,
    880924, 906511, 637006, 874367, 599996, 71855, 521192, 368065, 719804, 61397,
    122110, 237286, 988980, 83650, 919658, 428251, 356268, 931839, 397038, 187909,
    82904, 528145, 174862, 101700, 540264, 681772, 649889, 531197, 540535, 108186,
    569384, 1548, 885933, 146740, 143399, 43136, 210918, 827877, 905791, 485636,
    502354, 525197, 639681, 715902, 852411, 590518, 956292, 789797, 456339, 142254,
    259810, 990012, 900107, 180889, 612505, 690550, 376291, 232783, 441600, 359504,
    528310, 325048, 68037, 960581, 382865, 646357, 30360, 13749, 876886, 717854,
    85242, 905097, 70939, 332645, 873480, 397884, 387940, 250043, 445719, 82654,
    122598, 15338, 347805, 637265, 886657, 348053, 847343, 389491, 183707, 88518,
    956581, 788338, 721491, 329489, 474057, 928487, 108031, 255514, 107401, 32333,
    396822, 16448, 96604, 41826, 459504, 626321, 638725, 555582, 671749, 172087,
    498506, 99708, 546973, 698556, 127285, 151180, 98346, 221986, 157234, 865543,
    906756, 461398, 89803, 464039, 900726, 474803, 56089, 885229, 350604, 321845,
    57860, 673416, 929865, 424483, 608727, 814524, 364656, 655749, 218708, 220489,
    328783, 232289, 564336, 269738, 100708, 481718, 885405, 428937, 99105, 827103,
    150601, 26313, 965763, 69442, 524314, 336047, 580087, 679352, 806403, 246804,
    567906, 739577, 435911, 457653, 484527, 773216, 25310, 140476, 545059, 252820,
    81190, 237597, 852368, 393308, 255498, 603938, 145805, 621499, 882756, 812877,
    355864, 144124, 548686, 902277, 546624, 57944, 941486, 410837, 538496, 675144,
    807755, 474021, 396769, 919810, 645812, 425902, 280171, 301791, 52932, 700129,
    6615, 715718, 152156, 168436, 424628, 849530, 725721, 227616, 162749, 176939,
    201491, 65686, 56333, 396468, 473241, 701468, 349486, 509457, 425466, 218060,
    886302, 701755, 747870, 727929, 665970, 818590, 519041, 9366, 744877, 678947,
    197680, 464674, 761131, 642730, 862426, 129744, 302577, 897831, 167137, 807186,
    629288, 831767, 29667, 170215, 857761, 863110, 193265, 891657, 613403, 516712,
    43809, 229093, 982265, 663039, 567209, 193939, 436270, 953335, 281946, 282964,
    798869, 617608, 553921, 553508, 205966, 686535, 172460, 504237, 266675, 704007,
    184940, 576505, 905929, 41514, 292412, 441260, 819937, 429929, 47206, 348266,
    767042, 755532, 757972, 222694, 26482, 621285, 399997, 725475, 165538, 176951,
    957610, 391169, 79016, 706755, 408251, 515986, 983243, 221022, 70956, 480068,
    687571, 971507, 556568, 987229, 156816, 665391, 627975, 648723, 159225, 596214,
    124114, 86403, 130525, 826108, 601641, 637677, 11242, 91629, 185852, 351572,
    766604, 81620, 358904, 81257, 741133, 488258, 462319, 724629, 484164, 631551,
    109591, 345992, 962755, 712612, 472215, 640805, 766166, 386068, 838049, 142421,
    205170, 839431, 660865, 879483, 813917, 499553, 345907, 818432, 379027, 600770,
    635696, 542847, 800310, 450250, 569628, 419090, 230925, 211492, 824483, 226081,
    41352, 775062, 838861, 207546, 653171, 642100, 793349, 279914, 176282, 92331,
    324771, 364857, 13784, 823077, 104324, 12769, 283006, 525393, 763242, 613536,
    619482, 521846, 353126, 162728, 686835, 505851, 284729, 348185, 819970, 586509,
    698291, 779757, 420620, 372058, 566112, 275715, 183234, 267178, 475018, 447037,
    542147, 887617, 908865, 374123, 975880, 37384, 213001, 22076, 532008, 155065,
    345389, 894973, 24406, 565055, 390498, 194884, 625832, 155688, 330297, 707733,
    160664, 670508, 855985, 281479, 583541, 82081, 974316, 631431, 466320, 206910,
    890019, 842780, 711368, 281862, 661556, 873412, 236140, 927932, 409219, 887835,
    361779, 64606, 805528, 115081, 39335, 882788, 910229, 113410, 793536, 823983,
    270550, 809008, 455800, 663604, 8898, 876727, 237918, 904715, 705233, 265846,
    329831, 588542, 733851, 413745, 630866, 203068, 774858, 615908, 602887, 35574,
    723362, 603224, 580987, 928287, 423897, 320493, 494728, 635536, 283035, 100620,
    779578, 217448, 155976, 420383, 389478, 859206, 525642, 368171, 698518, 226151,
    884043, 474735, 472128, 80084, 974510, 583139, 477535, 210175, 776773, 175040,
    769744, 110578, 315259, 628488, 134335, 80136, 261583, 114600, 729502, 178060,
    543391, 587259, 622043, 351939, 622905, 132958, 67465, 654713, 833233, 739181,
    177637, 697873, 609541, 461624, 4383, 190062, 798314, 915185, 319597, 666711,
    599095, 151384, 496610, 947683, 885785, 488069, 988565, 750766, 288621, 360209,
    650480, 836602, 640939, 739364, 573337, 182893, 267392, 333151, 46927, 588322,
    860367, 795037, 493210, 650335, 184219, 165143, 585535, 1621, 696481, 275624,
    961642, 369978, 64624, 57347, 768657, 519623, 687352, 955683, 863479, 795641,
    329140, 414706, 205119, 501911, 988886, 409947, 411427, 78184, 970923, 182552,
    318870, 780976, 177373, 156896, 28168, 584054, 592351, 518755, 602690, 122890,
    608967, 429756, 74215, 70322, 477366, 440741, 959353, 674587, 719079, 318355,
    437907, 955898, 968512, 86330, 298649, 56935, 64409, 234150, 277317, 151923,
    562197, 581076, 309273, 984481, 742331, 962036, 98730, 378646, 657285, 89250,
    421683, 649263, 194898, 586484, 438180, 115549, 606015, 990814, 664385, 493037,
    620995, 461887, 812355, 932782, 387825, 967787, 221831, 482737, 60053, 38345,
    166021, 305336, 168800, 14881, 123735, 186893, 464294, 620293, 112853, 697507,
    778687, 229424, 714113, 646283, 279243, 335100, 293680, 707322, 32744, 600877,
    52797, 309803, 565852, 134866, 507007, 693335, 613109, 727318, 320762, 699225,
    540568, 880504, 613145, 603379, 715894, 517069, 157451, 615763, 652296, 996275,
    494430, 781564, 556223, 575443, 152006, 596913, 553296, 221911, 587650, 667583,
    209998, 932813, 437843, 272688, 153331, 3682, 90503, 54569, 883078, 214072,
    768129, 915362, 196214, 375529, 119355, 307314, 675442, 492564, 647941, 243603,
    280894, 631645, 940015, 476666, 947833, 845431, 928680, 954218, 865110, 632263,
    593684, 176005, 451186, 563788, 895687, 922210, 914013, 40582, 956801, 603443,
    891565, 905848, 774350, 371806, 232654, 79262, 306424, 762557, 134009, 518136,
    418904, 428988, 417702, 213327, 683585, 560276, 229556, 330877, 350093, 382146,
    946220, 108331, 825952, 334053, 253513, 325195, 268480, 392472, 795405, 905975,
    665419, 583990, 55748, 755097, 77356, 618662, 833757, 718407, 428297, 859504,
    81916, 423277, 620578, 378825, 201676, 32320, 628621, 274271, 560145, 115061,
    750601, 146277, 666199, 734706, 712690, 822072, 926505, 327227, 990559, 594227,
    130566, 512376, 796333, 544305, 337676, 928385, 23435, 999444, 586129, 832818
  >>

\* the same for seed = 12345 .. 13344
SinTab12345 ==
  <<
    283635, 328745, 831969, 522825, 376092, 460847, 731170, 51415, 437213, 801590,
    220660, 671714, 84452, 267713, 35409, 216374, 120963, 154348, 91295, 550783,
    943939, 511826, 463542, 151060, 490964, 220381, 862272, 937660, 990066, 457914,
    72028, 307372, 211519, 200196, 438160, 488088, 470283, 400468, 9675, 191139,
    164002, 135276, 607612, 546730, 567069, 710112, 776775, 253112, 462251, 974786,
    61824, 557248, 212369, 836178, 754924, 25528, 746110, 422334, 37064, 330558,
    141947, 339912, 165026, 933548, 72242, 889886, 625394, 93992, 370706, 56806,
    644561, 795458, 112061, 908268, 716275, 769806, 875540, 644232, 359773, 4693,
    449478, 594364, 421358, 245642, 917022, 244625, 23129, 183607, 958141, 430340,
    60723, 849806, 823094, 757933, 489307, 140321, 135371, 872684, 901602, 797387,
    247095, 227100, 63152, 820998, 303270, 59057, 594402, 328255, 99618, 227545,
    683308, 723195, 934764, 27040, 128942, 358736, 133098, 302234, 239337, 238279,
    909086, 642749, 430431, 886061, 431978, 427069, 681245, 739117, 296194, 349811,
    566181, 881857, 449208, 439064, 637029, 312720, 505200, 860810, 21632, 758771,
    152968, 895429, 697000, 42205, 610440, 651988, 58194, 657769, 628070, 366712,
    415643, 719111, 972783, 483019, 645414, 89239, 229656, 130779, 268570, 577176,
    45650, 681994, 694323, 728000, 275482, 140906, 627549, 162629, 473260, 928094,
    765750, 616567, 265673, 467096, 290187, 682943, 31655, 685511, 459447, 642649,
    555678, 333527, 665841, 370096, 212193, 889677, 178162, 814745, 858282, 666153,
    966725, 811779, 140378, 317935, 664216, 89385, 638188, 615173, 520811, 243090,
    301355, 366738, 16081, 400882, 843164, 90364, 134054, 253231, 937320, 84018,
    929440, 865646, 628777, 126114, 650402, 822877, 790371, 613680, 248821, 627666,
    695897, 118524, 482276, 841370, 22146, 225763, 427998, 931173, 260378, 841640,
    382856, 169609, 11852, 237939, 733304, 254773, 865102, 967898, 374829, 421410,
    42035, 583541, 319566, 236096, 195280, 732648, 323606, 780395, 520062, 570774,
    611040, 827283, 856473, 417575, 315327, 27172, 953951, 48956, 309855, 302824,
    835964, 807694, 495999, 756156, 431385, 686572, 660384, 911641, 952718, 586752,
    313194, 398266, 245175, 738484, 349565, 161213, 91473, 334888, 302535, 959350,
    828027, 371866, 581417, 696594, 130298, 348332, 52712, 119966, 956278, 225261,
    142788, 666708, 71745, 167263, 177466, 462511, 994107, 87255, 765346, 680060,
    504148, 723597, 717890, 1105, 368906, 68192, 85858, 107859, 226607, 337769,
    949214, 857201, 395991, 465271, 325538, 727040, 114565, 568334, 117470, 843775,
    116550, 923751, 619085, 898963, 55802, 585181, 317135, 895420, 848732, 870447,
    732241, 946759, 628611, 840348, 424795, 11283, 494593, 924456, 885176, 170312,
    310693, 38949, 260554, 857953, 334665, 176148, 847429, 862345, 356437, 415150,
    72741, 721525, 69091, 19889, 304802, 682768, 401026, 909617, 468159, 872579,
    816883, 320274, 726446, 271297, 105563, 970499, 627699, 47936, 575932, 663244,
    614344, 997456, 142897, 111490, 371101, 768863, 255942, 572704, 120339, 766064,
    785965, 887556, 785656, 961118, 766019, 218769, 782931, 595265, 500710, 431853,
    670540, 831117, 766598, 869455, 511182, 635194, 945412, 680383, 683790, 394037,
    17337, 967599, 743207, 789397, 300826, 984354, 217040, 497546, 76067, 440331,
    273219, 381463, 416773, 661500, 504602, 981360, 958173, 33779, 983194, 638984,
    881320, 416143, 179686, 883494, 944204, 102330, 930020, 844398, 319202, 573071,
    315392, 927179, 57386, 515074, 158448, 851965, 568235, 452903, 455885, 886185,
    841191, 266397, 43439, 997679, 294871, 686519, 151850, 431453, 515474, 551591,
    630465, 576041, 44679, 297688, 500602, 875623, 607520, 635419, 18655, 824887,
    239776, 600360, 583372, 610122, 547171, 363508, 552677, 316528, 968634, 615090,
    368990, 828647, 928702, 48467, 841787, 889628, 59674, 449290, 281541, 869411,
    731010, 188186, 961709, 511086, 741108, 724785, 341643, 501340, 283997, 113160,
    694272, 752164, 410307, 13973, 8586, 560031, 27078, 506262, 254932, 507385,
    178196, 640476, 186427, 504897, 932775, 775016, 187428, 735563, 295278, 406666,
    188741, 18650, 859560, 472684, 152882, 921394, 552335, 591849, 346909, 519292,
    562416, 257085, 9383, 827982, 225417, 98892, 83652, 545740, 628896, 2128,
    536942, 913637, 35486, 293768, 369676, 704424, 935215, 364460, 393903, 502483,
    38000, 29008, 481447, 254613, 159649, 732140, 37011, 997357, 982112, 522280,
    812096, 68855, 166774, 536517, 36910, 943886, 618270, 722476, 331593, 129189,
    147285, 150396, 816498, 853578, 620295, 960142, 310721, 672223, 22781, 209493,
    876830, 25234, 487355, 44751, 588534, 244156, 600496, 274042, 176285, 240613,
    40520, 596988, 829543, 456064, 91229, 828158, 125545, 96077, 583536, 965850,
    598656, 277358, 332614, 807446, 475043, 663796, 202125, 742991, 45837, 46820,
    247033, 412336, 954581, 457609, 670120, 671600, 237243, 930614, 287823, 579237,
    153495, 346713, 95275, 545337, 396463, 983892, 298353, 798739, 456292, 503448,
    30560, 99113, 111338, 312615, 676988, 706471, 359243, 473123, 199597, 865227,
    132811, 11457, 482315, 397002, 898765, 319113, 929018, 596579, 194864, 574414,
    441120, 15055, 163811, 282605, 749099, 590621, 70852, 911251, 76802, 103274,
    596792, 789235, 619319, 134233, 504849, 796085, 415927, 132645, 697858, 455257,
    42833, 209953, 100770, 703026, 377563, 813538, 171095, 871833, 795844, 688799,
    27337, 605675, 374979, 101032, 449026, 981349, 889237, 80930, 963882, 95973,
    715981, 856527, 991077, 854954, 922857, 340715, 338774, 606980, 128698, 306165,
    728943, 493734, 322702, 393577, 883750, 468973, 668894, 644073, 331142, 965044,
    958623, 998495, 836388, 472087, 700819, 224050, 483220, 855364, 693732, 461279,
    350836, 869205, 348791, 540846, 878743, 905389, 628289, 495698, 20189, 987273,
    838334, 72887, 819683, 580429, 638101, 554929, 884115, 559854, 685730, 707022,
    518335, 976283, 391040, 608257, 976910, 207696, 362618, 491022, 87686, 10040,
    490434, 126773, 597956, 798381, 698124, 170822, 867480, 66341, 251421, 786496,
    565602, 973890, 31617, 85693, 644865, 255216, 288021, 260462, 958948, 423564,
    969475, 8676, 792534, 11678, 364406, 428032, 490970, 744125, 639933, 660229,
    895322, 743737, 767421, 100070, 649791, 347466, 542309, 546630, 862309, 54792,
    150782, 344497, 199133, 453321, 137584, 599417, 270108, 240993, 610068, 678401,
    846591, 269173, 672843, 842587, 310600, 72981, 444072, 729519, 46508, 979918,
    566232, 846484, 313994, 211120, 407518, 598752, 712543, 37948, 503014, 201409,
    1665, 557866, 666009, 141682, 46945, 461387, 204882, 505007, 680138, 678105,
    589666, 171445, 432183, 35699, 640880, 903279, 209596, 840355, 663729, 78154,
    311662, 237899, 670978, 550847, 829198, 110916, 942389, 337463, 681626, 167963,
    984244, 434861, 548119, 992943, 136644, 298726, 990464, 318578, 950430, 224061,
    726966, 50403, 290468, 447930, 374796, 991625, 660851, 969366, 362126, 767735,
    34330, 906039, 556092, 926417, 541243, 533273, 733048, 150108, 786065, 117054,
    111551, 213328, 121980, 578189, 685939, 734259, 858271, 818596, 870774, 621078,
    36472, 216128, 642838, 275102, 705552, 243178, 141077, 243519, 953009, 617988,
    35466, 796045, 605247, 842101, 782836, 34313, 763813, 222361, 632498, 14554,
    568992, 114190, 864898, 717839, 291229, 286430, 224102, 51271, 406145, 683084,
    810876, 396730, 538970, 935926, 898446, 615058, 565155, 113781, 355529, 675387,
    150266, 512903, 26775, 828330, 930618, 423463, 159151, 411600, 661672, 195270,
    815798, 680485, 969633, 806049, 496622, 693199, 378032, 409743, 827489, 975892,
    960819, 579301, 796000, 594995, 334993, 547905, 580172, 366870, 10284, 628510,
    630373, 12201, 194441, 672224, 711084, 773294, 851725, 310436, 564708, 88978,
    45762, 698237, 282304, 6775, 526188, 665829, 352622, 760499, 599476, 904248,
    196243, 595590, 906519, 331265, 561726, 252310, 141382, 865672, 422046, 59275,
    273871, 883251, 808575, 862311, 919973, 573166, 885619, 700487, 903458, 243110,
    533737, 770095, 225430, 913684, 720873, 769420, 917167, 552406, 478516, 276549
  >>

\* x - Math.floor(x) for x = Math.sin(seed) * 10000, in millionths
SinFrac(seed) ==
  IF seed >= 12345 THEN SinTab12345[seed - 12344] ELSE SinTab42[seed - 41]

SeededRandom(seed) == [seed |-> seed, originalSeed |-> seed]

\* reset() with its assignment reversed (this.originalSeed = this.seed)
RngResetReversed(r) == [r EXCEPT !.originalSeed = r.seed]

RngReset(r) == [r EXCEPT !.seed = r.originalSeed]

SetSeed(r, newSeed) == [seed |-> newSeed, originalSeed |-> newSeed]

\* next(): the value drawn (millionths) and the generator after the draw
RngNext(r) == [val |-> SinFrac(r.seed), rng |-> [r EXCEPT !.seed = @ + 1]]

\* range(min, max) = min + next() * (max - min), in millionths
RngRange(r, min, max) ==
  LET d == RngNext(r)
  IN  [val |-> min * Million + d.val * (max - min), rng |-> d.rng]

\* Math.floor of a value in millionths
FloorMillion(v) == IF v >= 0 THEN v \div Million ELSE -((-v + Million - 1) \div Million)

\* int(min, max) = Math.floor(range(min, max + 1))
RngInt(r, min, max) ==
  LET d == RngRange(r, min, max + 1)
  IN  [val |-> FloorMillion(d.val), rng |-> d.rng]

\* int(min, max) for min = 2^53 + a and max = 2^53 + b with a <= b < 0, the
\* value returned given as its distance from 2^53.  max + 1 and
\* max + 1 - min are exact; the sum min + next() * (max + 1 - min) is below
\* 2^53, where the doubles are the integers, so the sum is rounded to the
\* nearest integer (to the even one when it is half way) before Math.floor
\* sees it.
RngIntLarge(r, a, b) ==
  LET Nearest(whole, part) ==
        IF part > Million \div 2 \/ (part = Million \div 2 /\ whole % 2 # 0)
        THEN whole + 1
        ELSE whole
      Rounded(v) == Nearest(FloorMillion(v), v - FloorMillion(v) * Million)
      Floored(d) == [val |-> Rounded(a * Million + d.val * (b + 1 - a)), rng |-> d.rng]
  IN  Floored(RngNext(r))

\* what indexing an array outside its bounds yields; the arrays of the
\* program hold nodes, which are read by their id
Undefined == [id |-> "undefined"]

\* choice(array) = array[int(0, array.length - 1)]; arrays are 0-based in the
\* program and 1-based here
RngChoice(r, array) ==
  LET d == RngInt(r, 0, Len(array) - 1)
  IN  [val |-> IF d.val + 1 \in DOMAIN array THEN array[d.val + 1] ELSE Undefined,
       rng |-> d.rng]

----------------------------------------------------------------------------
(* Scenario definitions, nodes and packets *)

\* blockRate is kept in millionths, like the values of next()
SCENARIOS ==
  [ ddos     |-> [name |-> "DDoS Attack", attackers |-> 30, packetsPerSecond |-> 100,
                  duration |-> 60],
    mitm     |-> [name |-> "Man-in-the-Middle", attackers |-> 1, clients |-> 2,
                  packetsPerSecond |-> 20],
    firewall |-> [name |-> "Firewall Defense", attackers |-> 10, legitimateClients |-> 5,
                  packetsPerSecond |-> 50, blockRate |-> 800000],
    arpSpoof |-> [name |-> "ARP Spoofing", nodes |-> 8, attacker |-> 1,
                  packetsPerSecond |-> 30] ]

\* the properties every object literal inherits from Object.prototype, which
\* a lookup by name finds as it finds the object's own
ObjectPrototype ==
  {"constructor", "toString", "toLocaleString", "valueOf", "hasOwnProperty",
   "isPrototypeOf", "propertyIsEnumerable", "__proto__", "__defineGetter__",
   "__defineSetter__", "__lookupGetter__", "__lookupSetter__"}

\* SCENARIOS[scenarioName] is defined (truthy): own or inherited
Defined(scenarioName) == scenarioName \in DOMAIN SCENARIOS \cup ObjectPrototype

\* this.scenario.attackers and this.scenario.packetsPerSecond; an inherited
\* property is a function, which has neither: the value is undefined, a loop
\* "i < undefined" or "i < NaN" runs no iteration, as with 0
ScenarioAttackers(scenarioName) ==
  IF scenarioName \in DOMAIN SCENARIOS THEN SCENARIOS[scenarioName].attackers ELSE 0

PacketsPerSecond(scenarioName) ==
  IF scenarioName \in DOMAIN SCENARIOS THEN SCENARIOS[scenarioName].packetsPerSecond ELSE 0

\* new Node(id, type, x, y, radius); the position, the radius and the pulse
\* phase are read by the renderer only and are not kept
Node(id, type) == [id |-> id, type |-> type, connections |-> <<>>]

Connect(node, ids) == [node EXCEPT !.connections = @ \o ids]

\* the interpolation parameter of the packet's position between its source
\* (0) and its target (1000000), in millionths, for progress t in thousandths
Ease(t) == IF t < 500 THEN 2 * t * t ELSE (4000 - 2 * t) * t - Million

\* new Packet(id, source, target, type, speed): x = source.x, y = source.y is
\* ease = 0; source and target are kept as node ids; the trail is render-only
Packet(id, source, target, type, speed) ==
  [id |-> id, source |-> source, target |-> target, type |-> type, speed |-> speed,
   progress |-> 0, ease |-> 0, active |-> TRUE]

\* Packet.update() returning true from the call that completes the travel
\* (the packet is deactivated, "return false" is missing)
PacketUpdateLate(p) ==
  IF ~p.active THEN [packet |-> p, result |-> FALSE]
  ELSE LET q == p.progress + p.speed
       IN  IF q >= 1000
           THEN [packet |-> [p EXCEPT !.progress = q, !.active = FALSE], result |-> TRUE]
           ELSE [packet |-> [p EXCEPT !.progress = q, !.ease = Ease(q)], result |-> TRUE]

\* Packet.update() without its first line (if (!this.active) return false)
PacketUpdateNoGuard(p) ==
  LET q == p.progress + p.speed
  IN  IF q >= 1000
      THEN [packet |-> [p EXCEPT !.progress = q, !.active = FALSE], result |-> FALSE]
      ELSE [packet |-> [p EXCEPT !.progress = q, !.ease = Ease(q)], result |-> TRUE]

\* Packet.update(): the packet after the call and the value returned
PacketUpdate(p) ==
  IF ~p.active THEN [packet |-> p, result |-> FALSE]
  ELSE LET q == p.progress + p.speed
       IN  IF q >= 1000
           THEN [packet |-> [p EXCEPT !.progress = q, !.active = FALSE], result |-> FALSE]
           ELSE [packet |-> [p EXCEPT !.progress = q, !.ease = Ease(q)], result |-> TRUE]

----------------------------------------------------------------------------
(* AttackSimulation *)

\* hist is history only: the number of packets Packet.update() has brought to
\* progress >= 1, the number of packets created of each type, the number of
\* update() calls made on the simulation, and for each packet created (by id,
\* from 0) the number of update() calls made when it was created
AttackSimulation(scenarioName) ==
  [scenario |-> scenarioName,
   nodes |-> <<>>,
   packets |-> <<>>,
   metrics |-> [packetsSent |-> 0, packetsReceived |-> 0, packetsDropped |-> 0,
                packetsBlocked |-> 0, serverLoad |-> 0, latency |-> 0],
   time |-> 0,
   packetIdCounter |-> 0,
   hist |-> [arrived |-> 0, normal |-> 0, attack |-> 0, updates |-> 0, born |-> <<>>]]

\* createPacket with packetsSent recomputed from the live collection
\* (this.metrics.packetsSent = this.packets.length) instead of incremented
CreatePacketRecount(sim, source, target, type, speed) ==
  [sim EXCEPT !.packets = Append(@, Packet(sim.packetIdCounter, source, target, type, speed)),
              !.packetIdCounter = @ + 1,
              !.metrics.packetsSent = Len(sim.packets) + 1,
              !.hist[type] = @ + 1,
              !.hist.born = Append(@, sim.hist.updates)]

\* createPacket taking the id from the length of the live collection
\* (this.packets.length) instead of the counter
CreatePacketLengthId(sim, source, target, type, speed) ==
  [sim EXCEPT !.packets = Append(@, Packet(Len(sim.packets), source, target, type, speed)),
              !.packetIdCounter = @ + 1,
              !.metrics.packetsSent = @ + 1,
              !.hist[type] = @ + 1,
              !.hist.born = Append(@, sim.hist.updates)]

CreatePacket(sim, source, target, type, speed) ==
  [sim EXCEPT !.packets = Append(@, Packet(sim.packetIdCounter, source, target, type, speed)),
              !.packetIdCounter = @ + 1,
              !.metrics.packetsSent = @ + 1,
              !.hist[type] = @ + 1,
              !.hist.born = Append(@, sim.hist.updates)]

\* getMetrics() returning the simulation's own metrics object
\* (return this.metrics)
GetMetricsSame(sim) == [own |-> TRUE, fields |-> sim.metrics]

\* getMetrics(): { ...this.metrics }, a new object with every property of
\* this.metrics copied; own tells whether the object returned is the
\* simulation's own this.metrics
GetMetrics(sim) == [own |-> FALSE, fields |-> [f \in DOMAIN sim.metrics |-> sim.metrics[f]]]

FindNode(sim, id) ==
  LET hits == SelectSeq(sim.nodes, LAMBDA n : n.id = id)
  IN  IF hits = <<>> THEN Undefined.id ELSE hits[1].id

\* the number of iterations of "for (let i = 0; i < packetsThisFrame; i++)"
\* with packetsThisFrame = (intensity / 100) * packetsPerSecond * 0.016
PacketsThisFrame(scenarioName, intensity) ==
  (intensity * PacketsPerSecond(scenarioName) * 16 + 99999) \div 100000

\* setTimeout(callback, delay) called by the simulation c.self
SetTimeout(c, callback, delay) ==
  [c EXCEPT !.timers = Append(@, callback @@ [owner |-> c.self, delay |-> delay, left |-> delay])]

----------------------------------------------------------------------------
(* The four scenario classes.  An operation on a simulation takes and      *)
(* returns a context c: the simulation (c.sim), the random source it holds *)
(* (c.rng), the platform's timer queue (c.timers) and the simulation's     *)
(* identity (c.self).                                                      *)

\* this.packets.filter(p => p.active).length
ActivePackets(sim) == Len(SelectSeq(sim.packets, LAMBDA p : p.active))

\* the load without its cap: (activePackets / divisor) * 100
ServerLoadUnclamped(sim, divisor) ==
  (Len(SelectSeq(sim.packets, LAMBDA p : p.active)) * 100 * LoadScale) \div divisor

\* Math.min(100, (activePackets / divisor) * 100), in sixths of a percent
ServerLoad(sim, divisor) ==
  LET v == (ActivePackets(sim) * 100 * LoadScale) \div divisor
  IN  IF v < 100 * LoadScale THEN v ELSE 100 * LoadScale

\* packets.forEach(p => { if (!p.active && p.progress >= 1) packetsReceived++ }),
\* with the further test p.type !== excluded where the variant has one
CountReceived(sim, excluded) ==
  [sim EXCEPT !.metrics.packetsReceived =
     @ + Len(SelectSeq(sim.packets,
                       LAMBDA p : ~p.active /\ p.progress >= 1000 /\ p.type # excluded))]

(* DDoSAttack *)

DDoSInitialize(c) ==
  LET attacker(i) == Connect(Node("attacker-" \o ToString(i), "attacker"), <<"server">>)
  IN  [c EXCEPT !.sim.nodes = @ \o <<Node("server", "server")>> \o
                    [i \in 1..ScenarioAttackers(c.sim.scenario) |-> attacker(i - 1)]]

\* generatePackets with source and target exchanged
\* (createPacket(serverNode, attacker, 'attack', 2.0))
DDoSSlotReversed(c) ==
  LET serverNode == FindNode(c.sim, "server")
      attackers == SelectSeq(c.sim.nodes, LAMBDA n : n.type = "attacker")
      d == RngNext(c.rng)
  IN  IF d.val < 500000
      THEN LET attacker == RngChoice(d.rng, attackers)
           IN  [c EXCEPT !.sim = CreatePacket(@, serverNode, attacker.val.id, "attack", 20),
                         !.rng = attacker.rng]
      ELSE [c EXCEPT !.rng = d.rng]

DDoSSlot(c) ==
  LET serverNode == FindNode(c.sim, "server")
      attackers == SelectSeq(c.sim.nodes, LAMBDA n : n.type = "attacker")
      d == RngNext(c.rng)
  IN  IF d.val < 500000
      THEN LET attacker == RngChoice(d.rng, attackers)
           IN  [c EXCEPT !.sim = CreatePacket(@, attacker.val.id, serverNode, "attack", 20),
                         !.rng = attacker.rng]
      ELSE [c EXCEPT !.rng = d.rng]

\* the forEach of the overloaded branch, from packet i on: next() is drawn
\* only for a packet that is active with progress > 0.9
RECURSIVE DDoSDropFrom(_, _)
DDoSDropFrom(c, i) ==
  IF i > Len(c.sim.packets) THEN c
  ELSE LET packet == c.sim.packets[i]
       IN  IF packet.active /\ packet.progress >= 900
           THEN LET d == RngNext(c.rng)
                IN  IF d.val < 300000
                    THEN DDoSDropFrom([c EXCEPT !.sim.packets[i].active = FALSE,
                                                !.sim.metrics.packetsDropped = @ + 1,
                                                !.rng = d.rng], i + 1)
                    ELSE DDoSDropFrom([c EXCEPT !.rng = d.rng], i + 1)
           ELSE DDoSDropFrom(c, i + 1)

\* updateMetrics dropping from half load on (serverLoad > 50)
DDoSUpdateMetricsHalfLoad(c) ==
  LET load == ServerLoad(c.sim, 50)
      c1 == [c EXCEPT !.sim.metrics.serverLoad = load,
                      !.sim.metrics.latency = 10 + (load * 500) \div (100 * LoadScale)]
  IN  IF load > 50 * LoadScale
      THEN DDoSDropFrom(c1, 1)
      ELSE [c1 EXCEPT !.sim = CountReceived(@, "none")]

DDoSUpdateMetrics(c) ==
  LET load == ServerLoad(c.sim, 50)
      c1 == [c EXCEPT !.sim.metrics.serverLoad = load,
                      !.sim.metrics.latency = 10 + (load * 500) \div (100 * LoadScale)]
  IN  IF load > 80 * LoadScale
      THEN DDoSDropFrom(c1, 1)
      ELSE [c1 EXCEPT !.sim = CountReceived(@, "none")]

(* MITMAttack *)

\* initialize() connecting the attacker to a node that does not exist
MITMInitializeDangling(c) ==
  LET client1 == Connect(Node("client1", "client"), <<"attacker">>)
      client2 == Connect(Node("client2", "client"), <<"attacker">>)
      attacker == Connect(Node("attacker", "attacker"), <<"client1", "server">>)
  IN  [c EXCEPT !.sim.nodes = @ \o <<client1, attacker, client2>>]

MITMInitialize(c) ==
  LET client1 == Connect(Node("client1", "client"), <<"attacker">>)
      client2 == Connect(Node("client2", "client"), <<"attacker">>)
      attacker == Connect(Node("attacker", "attacker"), <<"client1", "client2">>)
  IN  [c EXCEPT !.sim.nodes = @ \o <<client1, attacker, client2>>]

\* the closure of a relay callback: createPacket(attacker, target, 'attack',
\* speed) if both nodes exist; packet and from name the packet sent in the
\* same slot and its sender
Relay(packet, from, attacker, target, speed) ==
  [action |-> "relay", packet |-> packet, from |-> from, source |-> attacker,
   target |-> target, type |-> "attack", speed |-> speed, isAttack |-> FALSE]

\* generatePackets whose second branch relays to client2 as the first does,
\* back to the sender
MITMSlotEcho(c) ==
  LET client1 == FindNode(c.sim, "client1")
      client2 == FindNode(c.sim, "client2")
      attacker == FindNode(c.sim, "attacker")
      d1 == RngNext(c.rng)
      d2 == RngNext(d1.rng)
      send(from, to) ==
        SetTimeout([c EXCEPT !.sim = CreatePacket(@, from, attacker, "normal", 15),
                             !.rng = d2.rng],
                   Relay(c.sim.packetIdCounter, from, attacker, to, 15), 500)
  IN  IF d1.val < 500000
      THEN IF d2.val < 500000 THEN send(client1, client2) ELSE send(client2, client2)
      ELSE [c EXCEPT !.rng = d1.rng]

MITMSlot(c) ==
  LET client1 == FindNode(c.sim, "client1")
      client2 == FindNode(c.sim, "client2")
      attacker == FindNode(c.sim, "attacker")
      d1 == RngNext(c.rng)
      d2 == RngNext(d1.rng)
      send(from, to) ==
        SetTimeout([c EXCEPT !.sim = CreatePacket(@, from, attacker, "normal", 15),
                             !.rng = d2.rng],
                   Relay(c.sim.packetIdCounter, from, attacker, to, 15), 500)
  IN  IF d1.val < 500000
      THEN IF d2.val < 500000 THEN send(client1, client2) ELSE send(client2, client1)
      ELSE [c EXCEPT !.rng = d1.rng]

\* updateMetrics with the divisor of DDoS (activePackets / 50)
MITMUpdateMetricsDivisor50(c) ==
  LET load == ServerLoad(c.sim, 50)
      d == RngRange(c.rng, 0, 100)
  IN  [c EXCEPT !.sim = CountReceived([@ EXCEPT !.metrics.serverLoad = load,
                                                !.metrics.latency = FloorMillion(150 * Million + d.val)],
                                      "none"),
                !.rng = d.rng]

MITMUpdateMetrics(c) ==
  LET load == ServerLoad(c.sim, 20)
      d == RngRange(c.rng, 0, 100)
  IN  [c EXCEPT !.sim = CountReceived([@ EXCEPT !.metrics.serverLoad = load,
                                                !.metrics.latency = FloorMillion(150 * Million + d.val)],
                                      "none"),
                !.rng = d.rng]

(* FirewallAttack *)

\* the loop body of initialize() for i, i + 1, ...: one range(-50, 50) is
\* drawn for each node (its x offset, which the renderer reads)
RECURSIVE FirewallNodesFrom(_, _)
FirewallNodesFrom(c, i) ==
  LET totalNodes == SCENARIOS.firewall.attackers + SCENARIOS.firewall.legitimateClients
      isAttacker == i < SCENARIOS.firewall.attackers
      x == RngRange(c.rng, -50, 50)
      node == Connect(Node("node-" \o ToString(i), IF isAttacker THEN "attacker" ELSE "client"),
                      <<"firewall">>)
  IN  IF i < totalNodes
      THEN FirewallNodesFrom([c EXCEPT !.sim.nodes = Append(@, node), !.rng = x.rng], i + 1)
      ELSE c

FirewallInitialize(c) ==
  LET server == Node("server", "server")
      firewall == Connect(Node("firewall", "firewall"), <<"server">>)
  IN  FirewallNodesFrom([c EXCEPT !.sim.nodes = @ \o <<server, firewall>>], 0)

\* the closure of the firewall's decision on the packet sent in the same slot
Decide(packet, from, isAttack, firewall, server, packetType) ==
  [action |-> "decide", packet |-> packet, from |-> from, source |-> firewall,
   target |-> server, type |-> packetType, speed |-> 15, isAttack |-> isAttack]

FirewallSlot(c) ==
  LET firewall == FindNode(c.sim, "firewall")
      server == FindNode(c.sim, "server")
      clients == SelectSeq(c.sim.nodes, LAMBDA n : n.type = "client" \/ n.type = "attacker")
      d == RngNext(c.rng)
  IN  IF d.val < 500000
      THEN LET client == RngChoice(d.rng, clients)
               isAttack == client.val.type = "attacker"
               packetType == IF isAttack THEN "attack" ELSE "normal"
           IN  SetTimeout([c EXCEPT !.sim = CreatePacket(@, client.val.id, firewall, packetType, 15),
                                    !.rng = client.rng],
                          Decide(c.sim.packetIdCounter, client.val.id, isAttack, firewall, server,
                                 packetType), 500)
      ELSE [c EXCEPT !.rng = d.rng]

FirewallUpdateMetrics(c) ==
  LET load == ServerLoad(c.sim, 30)
  IN  [c EXCEPT !.sim = CountReceived([@ EXCEPT !.metrics.serverLoad = load,
                                                !.metrics.latency = 50 + (load * 200) \div (100 * LoadScale)],
                                      "blocked")]

(* ARPSpoofAttack *)

ARPSpoofInitialize(c) ==
  LET clients == [i \in 1..SCENARIOS.arpSpoof.nodes |-> Node("node-" \o ToString(i - 1), "client")]
      nodes == c.sim.nodes \o Append(clients, Node("attacker", "attacker"))
  IN  [c EXCEPT !.sim.nodes =
         [i \in DOMAIN nodes |-> IF nodes[i].type # "attacker"
                                 THEN Connect(nodes[i], <<"attacker">>) ELSE nodes[i]]]

\* generatePackets choosing the target among all the clients
\* (this.rng.choice(clients)), the source included
ARPSpoofSlotAnyTarget(c) ==
  LET attacker == FindNode(c.sim, "attacker")
      clients == SelectSeq(c.sim.nodes, LAMBDA n : n.type = "client")
      d1 == RngNext(c.rng)
      d2 == RngNext(d1.rng)
  IN  IF d1.val < 300000
      THEN LET source == RngChoice(d1.rng, clients)
               target == RngChoice(source.rng, clients)
           IN  IF target.val # Undefined
               THEN SetTimeout([c EXCEPT !.sim = CreatePacket(@, source.val.id, attacker, "normal", 10),
                                         !.rng = target.rng],
                               Relay(c.sim.packetIdCounter, source.val.id, attacker, target.val.id, 10),
                               400)
               ELSE [c EXCEPT !.rng = target.rng]
      ELSE IF d2.val < 500000
           THEN LET target == RngChoice(d2.rng, clients)
                IN  [c EXCEPT !.sim = CreatePacket(@, attacker, target.val.id, "attack", 20),
                              !.rng = target.rng]
           ELSE [c EXCEPT !.rng = d2.rng]

ARPSpoofSlot(c) ==
  LET attacker == FindNode(c.sim, "attacker")
      clients == SelectSeq(c.sim.nodes, LAMBDA n : n.type = "client")
      d1 == RngNext(c.rng)
      d2 == RngNext(d1.rng)
  IN  IF d1.val < 300000
      THEN LET source == RngChoice(d1.rng, clients)
               target == RngChoice(source.rng, SelectSeq(clients, LAMBDA n : n.id # source.val.id))
           IN  IF target.val # Undefined
               THEN SetTimeout([c EXCEPT !.sim = CreatePacket(@, source.val.id, attacker, "normal", 10),
                                         !.rng = target.rng],
                               Relay(c.sim.packetIdCounter, source.val.id, attacker, target.val.id, 10),
                               400)
               ELSE [c EXCEPT !.rng = target.rng]
      ELSE IF d2.val < 500000
           THEN LET target == RngChoice(d2.rng, clients)
                IN  [c EXCEPT !.sim = CreatePacket(@, attacker, target.val.id, "attack", 20),
                              !.rng = target.rng]
           ELSE [c EXCEPT !.rng = d2.rng]

\* updateMetrics with the overload rule of the DDoS variant: past 80% load
\* the packets near their target are dropped and counted
ARPSpoofUpdateMetricsDropping(c) ==
  LET load == ServerLoad(c.sim, 40)
      d == RngRange(c.rng, 0, 100)
      c1 == [c EXCEPT !.sim.metrics.serverLoad = load,
                      !.sim.metrics.latency = FloorMillion(30 * Million + d.val),
                      !.rng = d.rng]
  IN  IF load > 80 * LoadScale
      THEN DDoSDropFrom(c1, 1)
      ELSE [c1 EXCEPT !.sim = CountReceived(@, "none")]

ARPSpoofUpdateMetrics(c) ==
  LET load == ServerLoad(c.sim, 40)
      d == RngRange(c.rng, 0, 100)
  IN  [c EXCEPT !.sim = CountReceived([@ EXCEPT !.metrics.serverLoad = load,
                                                !.metrics.latency = FloorMillion(30 * Million + d.val)],
                                      "none"),
                !.rng = d.rng]

----------------------------------------------------------------------------
(* The shared loop, the deferred callbacks and the factory *)

Initialize(c) ==
  CASE c.sim.scenario = "ddos" -> DDoSInitialize(c)
    [] c.sim.scenario = "mitm" -> MITMInitialize(c)
    [] c.sim.scenario = "firewall" -> FirewallInitialize(c)
    [] c.sim.scenario = "arpSpoof" -> ARPSpoofInitialize(c)
    [] OTHER -> DDoSInitialize(c)

\* iterations i, i + 1, ... of the loop of generatePackets over n slots
RECURSIVE SlotsFrom(_, _, _)
SlotsFrom(c, i, n) ==
  IF i < n
  THEN SlotsFrom(CASE c.sim.scenario = "ddos" -> DDoSSlot(c)
                   [] c.sim.scenario = "mitm" -> MITMSlot(c)
                   [] c.sim.scenario = "firewall" -> FirewallSlot(c)
                   [] c.sim.scenario = "arpSpoof" -> ARPSpoofSlot(c)
                   [] OTHER -> DDoSSlot(c),
                 i + 1, n)
  ELSE c

GeneratePackets(c, intensity) == SlotsFrom(c, 0, PacketsThisFrame(c.sim.scenario, intensity))

UpdateMetrics(c) ==
  CASE c.sim.scenario = "ddos" -> DDoSUpdateMetrics(c)
    [] c.sim.scenario = "mitm" -> MITMUpdateMetrics(c)
    [] c.sim.scenario = "firewall" -> FirewallUpdateMetrics(c)
    [] c.sim.scenario = "arpSpoof" -> ARPSpoofUpdateMetrics(c)
    [] OTHER -> DDoSUpdateMetrics(c)

\* the sweep without its filter: this.packets.forEach(packet => packet.update())
SweepPacketsKeepAll(sim) ==
  LET upd == [i \in DOMAIN sim.packets |-> PacketUpdate(sim.packets[i])]
      arrivals == Cardinality({i \in DOMAIN upd : sim.packets[i].active /\ ~upd[i].packet.active})
  IN  [sim EXCEPT !.packets = [i \in DOMAIN upd |-> upd[i].packet],
                  !.hist.arrived = @ + arrivals]

\* this.packets = this.packets.filter(packet => packet.update())
SweepPackets(sim) ==
  LET upd == [i \in DOMAIN sim.packets |-> PacketUpdate(sim.packets[i])]
      kept == SelectSeq(upd, LAMBDA u : u.result)
      arrivals == Cardinality({i \in DOMAIN upd : sim.packets[i].active /\ ~upd[i].packet.active})
  IN  [sim EXCEPT !.packets = [i \in DOMAIN kept |-> kept[i].packet],
                  !.hist.arrived = @ + arrivals]

\* update() computing the metrics before it generates the new packets
UpdateMetricsFirst(c, deltaTime, speed, intensity) ==
  LET c1 == [c EXCEPT !.sim = SweepPackets([@ EXCEPT !.time = @ + deltaTime * speed,
                                                     !.hist.updates = @ + 1])]
  IN  GeneratePackets(UpdateMetrics(c1), intensity)

\* update() with the spawn slots scaled by the frame's real duration:
\* packetsThisFrame = (intensity / 100) * packetsPerSecond * (deltaTime / 1000)
UpdateByDeltaTime(c, deltaTime, speed, intensity) ==
  LET c1 == [c EXCEPT !.sim = SweepPackets([@ EXCEPT !.time = @ + deltaTime * speed,
                                                     !.hist.updates = @ + 1])]
      n == (intensity * PacketsPerSecond(c.sim.scenario) * deltaTime + 99999) \div 100000
  IN  UpdateMetrics(SlotsFrom(c1, 0, n))

\* update(deltaTime, speed, intensity); speed in tenths, time in tenths of ms
Update(c, deltaTime, speed, intensity) ==
  LET c1 == [c EXCEPT !.sim = SweepPackets([@ EXCEPT !.time = @ + deltaTime * speed,
                                                     !.hist.updates = @ + 1])]
  IN  UpdateMetrics(GeneratePackets(c1, intensity))

\* the callbacks with the firewall's decision not testing isAttack: any
\* packet is blocked with probability blockRate
CallbackBlockAny(c, t) ==
  IF t.action = "decide"
  THEN LET d == RngNext(c.rng)
       IN  IF d.val < SCENARIOS[c.sim.scenario].blockRate
           THEN [c EXCEPT !.sim.packets =
                            [i \in DOMAIN @ |-> IF @[i].id = t.packet
                                                THEN [@[i] EXCEPT !.type = "blocked", !.active = FALSE]
                                                ELSE @[i]],
                          !.sim.metrics.packetsBlocked = @ + 1,
                          !.rng = d.rng]
           ELSE IF t.source # Undefined.id /\ t.target # Undefined.id
                THEN [c EXCEPT !.sim = CreatePacket(@, t.source, t.target, t.type, t.speed),
                               !.rng = d.rng]
                ELSE [c EXCEPT !.rng = d.rng]
  ELSE IF t.source # Undefined.id /\ t.target # Undefined.id
       THEN [c EXCEPT !.sim = CreatePacket(@, t.source, t.target, t.type, t.speed)]
       ELSE c

\* a setTimeout callback t running on the simulation that scheduled it
Callback(c, t) ==
  IF t.action = "decide"
  THEN LET d == RngNext(c.rng)
       IN  IF t.isAttack /\ d.val < SCENARIOS[c.sim.scenario].blockRate
           THEN [c EXCEPT !.sim.packets =
                            [i \in DOMAIN @ |-> IF @[i].id = t.packet
                                                THEN [@[i] EXCEPT !.type = "blocked", !.active = FALSE]
                                                ELSE @[i]],
                          !.sim.metrics.packetsBlocked = @ + 1,
                          !.rng = d.rng]
           ELSE LET c1 == IF t.isAttack THEN [c EXCEPT !.rng = d.rng] ELSE c
                IN  IF t.source # Undefined.id /\ t.target # Undefined.id
                    THEN [c1 EXCEPT !.sim = CreatePacket(@, t.source, t.target, t.type, t.speed)]
                    ELSE c1
  ELSE IF t.source # Undefined.id /\ t.target # Undefined.id
       THEN [c EXCEPT !.sim = CreatePacket(@, t.source, t.target, t.type, t.speed)]
       ELSE c

\* null, where a Simulation object is expected
Null == [scenario |-> "null"]

\* the factory calling initialize() on the new simulation a second time
FactoryCreateTwice(scenarioName, r, ts, self) ==
  IF ~Defined(scenarioName)
  THEN [sim |-> Null, rng |-> r, timers |-> ts, self |-> self,
        console |-> <<"Unknown scenario: " \o scenarioName>>]
  ELSE Initialize(Initialize([sim |-> AttackSimulation(scenarioName), rng |-> r, timers |-> ts,
                              self |-> self, console |-> <<>>]))

\* SimulationFactory.create(scenarioName, rng, w, h): the context with the
\* simulation returned (the class is chosen by the switch on scenarioName,
\* DDoSAttack by default) and what console.error has logged
FactoryCreate(scenarioName, r, ts, self) ==
  IF ~Defined(scenarioName)
  THEN [sim |-> Null, rng |-> r, timers |-> ts, self |-> self,
        console |-> <<"Unknown scenario: " \o scenarioName>>]
  ELSE Initialize([sim |-> AttackSimulation(scenarioName), rng |-> r, timers |-> ts,
                   self |-> self, console |-> <<>>])

----------------------------------------------------------------------------
(* The driver: AppState, SimulationController and the platform's queues *)

NoTimer == [action |-> "none"]

Did(op) == [op |-> op, timer |-> NoTimer]

\* the Simulation object AppState.simulation refers to (0 is null)
Cur == app.simulation

\* the context of simulation g with the timer queue ts
Ctx(g, ts) == [sim |-> sims[g], rng |-> rng, timers |-> ts, self |-> g]

\* SimulationController.updateChart(): one data point, at most 60 kept
UpdateChart(a, allSims) ==
  IF a.simulation = 0 THEN a
  ELSE LET pushed == Append(a.chartData, GetMetrics(allSims[a.simulation]).fields.serverLoad)
       IN  [a EXCEPT !.chartData = IF Len(pushed) > 60 THEN Tail(pushed) ELSE pushed]

\* real time passes: every pending timer is ms closer to firing
Elapse(ts, ms) == [i \in DOMAIN ts |-> [ts[i] EXCEPT !.left = @ - ms]]

\* SimulationController.animate() called with AppState a, timer queue ts and
\* pending frames fr, deltaTime milliseconds after AppState.lastTime
AnimateCall(a, ts, fr, deltaTime) ==
  IF ~a.isRunning \/ a.isPaused
  THEN /\ app' = a
       /\ timers' = ts
       /\ frames' = fr
       /\ UNCHANGED <<sims, rng, nticks>>
  ELSE LET c == IF a.simulation # 0
                THEN Update(Ctx(a.simulation, ts), deltaTime, a.speed, a.intensity)
                ELSE [rng |-> rng, timers |-> ts]
           allSims == IF a.simulation # 0 THEN [sims EXCEPT ![a.simulation] = c.sim] ELSE sims
           counter == a.chartUpdateCounter + 1
           a1 == IF counter >= 60
                 THEN UpdateChart([a EXCEPT !.chartUpdateCounter = 0], allSims)
                 ELSE [a EXCEPT !.chartUpdateCounter = counter]
       IN  /\ sims' = allSims
           /\ rng' = c.rng
           /\ timers' = c.timers
           /\ nticks' = nticks + 1
           /\ frames' = fr \cup {nticks + 1}
           /\ app' = [a1 EXCEPT !.animationId = nticks + 1]

\* SimulationController.loadScenario(scenarioName) on AppState a: the new
\* AppState, the Simulation objects and the random source after the call
\* (threw: SCENARIOS[scenarioName] is undefined and reading its name throws a
\* TypeError, after AppState.simulation has been set to the factory's null)
LoadScenarioCall(a, scenarioName) ==
  LET c == FactoryCreate(scenarioName, SetSeed(rng, a.seed), timers, Len(sims) + 1)
  IN  IF c.sim = Null
      THEN [app |-> [a EXCEPT !.currentScenario = scenarioName, !.simulation = 0],
            sims |-> sims,
            rng |-> c.rng,
            threw |-> TRUE]
      ELSE [app |-> [a EXCEPT !.currentScenario = scenarioName, !.simulation = Len(sims) + 1],
            sims |-> Append(sims, c.sim),
            rng |-> c.rng,
            threw |-> FALSE]

\* SimulationController.pause() on AppState a, and the frames left pending
\* by its cancelAnimationFrame out of fr
PauseCall(a) == [a EXCEPT !.isPaused = TRUE, !.animationId = 0]

CancelFrame(a, fr) == IF a.animationId # 0 THEN fr \ {a.animationId} ELSE fr

(* Handlers *)

\* start() without its early return
StartNoGuard ==
  /\ nticks < MaxTicks
  /\ AnimateCall([app EXCEPT !.isRunning = TRUE, !.isPaused = FALSE], timers, frames, 0)
  /\ last' = Did("Start")
  /\ UNCHANGED <<period, twin, held, ninputs>>

\* SimulationController.start(): the early return is the guard; animate()
\* runs synchronously, right after lastTime is taken
Start ==
  /\ ~(app.isRunning /\ ~app.isPaused)
  /\ nticks < MaxTicks
  /\ AnimateCall([app EXCEPT !.isRunning = TRUE, !.isPaused = FALSE], timers, frames, 0)
  /\ last' = Did("Start")
  /\ UNCHANGED <<period, twin, held, ninputs>>

\* the animation frame callback h: it runs one frame period after the last
\* one, after every timer that fell due in between
Animate ==
  \E h \in frames :
    /\ \A i \in DOMAIN timers : timers[i].left > period
    /\ nticks < MaxTicks
    /\ AnimateCall(app, Elapse(timers, period), frames \ {h}, period)
    /\ last' = Did("Animate")
    /\ UNCHANGED <<period, twin, held, ninputs>>

\* the timers that may fire next: the earliest due, first scheduled first;
\* while a frame is pending only the timers due before it
Due(ts, pendingFrame, ms) ==
  {i \in DOMAIN ts :
     /\ \A j \in DOMAIN ts : ts[j].left > ts[i].left \/ (ts[j].left = ts[i].left /\ j >= i)
     /\ pendingFrame => ts[i].left <= ms}

Remove(ts, i) == [j \in 1..(Len(ts) - 1) |-> IF j < i THEN ts[j] ELSE ts[j + 1]]

\* a setTimeout callback fires, on the simulation that scheduled it
FireTimer ==
  \E i \in Due(timers, frames # {}, period) :
    LET t == timers[i]
        rest == Remove(timers, i)
        c == Callback(Ctx(t.owner, IF frames # {} THEN rest ELSE Elapse(rest, t.left)), t)
    IN  /\ sims' = [sims EXCEPT ![t.owner] = c.sim]
        /\ rng' = c.rng
        /\ timers' = c.timers
        /\ last' = [op |-> "FireTimer", timer |-> t]
        /\ UNCHANGED <<app, frames, period, nticks, twin, held, ninputs>>

\* SimulationController.pause()
Pause ==
  /\ app' = PauseCall(app)
  /\ frames' = CancelFrame(app, frames)
  /\ last' = Did("Pause")
  /\ UNCHANGED <<sims, rng, timers, period, nticks, twin, held, ninputs>>

\* SimulationController.reset(): pause(), loadScenario(currentScenario), then
\* the chart is emptied and updateChart() pushes the new simulation's load
Reset ==
  LET a1 == [PauseCall(app) EXCEPT !.isRunning = FALSE, !.isPaused = FALSE]
      r == LoadScenarioCall(a1, a1.currentScenario)
  IN  /\ Len(sims) < MaxLoads
      /\ app' = IF r.threw THEN r.app ELSE UpdateChart([r.app EXCEPT !.chartData = <<>>], r.sims)
      /\ sims' = r.sims
      /\ rng' = r.rng
      /\ frames' = CancelFrame(app, frames)
      /\ last' = Did("Reset")
      /\ UNCHANGED <<timers, period, nticks, twin, held, ninputs>>

\* the keys 1..4: SimulationController.loadScenario(scenarioName)
LoadScenario ==
  \E scenarioName \in ScenarioNames :
    LET r == LoadScenarioCall(app, scenarioName)
    IN  /\ Len(sims) < MaxLoads
        /\ app' = r.app
        /\ sims' = r.sims
        /\ rng' = r.rng
        /\ last' = Did("LoadScenario")
        /\ UNCHANGED <<timers, frames, period, nticks, twin, held, ninputs>>

(* Texts and numbers.  A text (the value of an input element, a string of a
   JSON document) is kept character by character, each character a string
   of one character; a character that a string of this notation cannot hold
   (U+2000 and above, but U+FEFF) is kept as its escape, the six characters
   \uXXXX with lower-case hexadecimal digits.  parseInt gives an integer;
   parseFloat gives the decimal it reads exactly, as a fraction. *)

Digits == <<"0", "1", "2", "3", "4", "5", "6", "7", "8", "9">>

\* the value of a decimal digit, 10 for any other character
DigitValue(ch) ==
  IF \E i \in DOMAIN Digits : Digits[i] = ch
  THEN (CHOOSE i \in DOMAIN Digits : Digits[i] = ch) - 1
  ELSE 10

\* the length of the run of digits text starts with
RECURSIVE DigitRun(_)
DigitRun(text) ==
  IF text = <<>> \/ DigitValue(Head(text)) = 10 THEN 0 ELSE 1 + DigitRun(Tail(text))

\* the number the first n characters of text, all digits, are the decimal of
RECURSIVE Decimal(_, _)
Decimal(text, n) ==
  IF n = 0 THEN 0 ELSE 10 * Decimal(text, n - 1) + DigitValue(text[n])

\* the value of a hexadecimal digit, 16 for any other character
HexValue(ch) ==
  LET letters == <<"a", "b", "c", "d", "e", "f">>
      capitals == <<"A", "B", "C", "D", "E", "F">>
  IN  IF DigitValue(ch) < 10 THEN DigitValue(ch)
      ELSE IF \E i \in DOMAIN letters : ch \in {letters[i], capitals[i]}
      THEN 9 + (CHOOSE i \in DOMAIN letters : ch \in {letters[i], capitals[i]})
      ELSE 16

RECURSIVE HexRun(_)
HexRun(text) ==
  IF text = <<>> \/ HexValue(Head(text)) = 16 THEN 0 ELSE 1 + HexRun(Tail(text))

RECURSIVE Hex(_, _)
Hex(text, n) == IF n = 0 THEN 0 ELSE 16 * Hex(text, n - 1) + HexValue(text[n])

\* the white space and the line terminators of the language: U+0009 to
\* U+000D, U+0020, U+00A0, U+1680, U+FEFF (the last four of the first line,
\* as themselves), U+2000 to U+200A, U+2028, U+2029, U+202F, U+205F and
\* U+3000
WhiteSpace ==
  {"\t", "\n", "\f", "\r", " ", "", " ", " ", "﻿",
   "\\u2000", "\\u2001", "\\u2002", "\\u2003", "\\u2004", "\\u2005",
   "\\u2006", "\\u2007", "\\u2008", "\\u2009", "\\u200a",
   "\\u2028", "\\u2029", "\\u202f", "\\u205f", "\\u3000"}

\* the text after the white space parseInt and parseFloat skip
RECURSIVE TrimStart(_)
TrimStart(text) ==
  IF text # <<>> /\ Head(text) \in WhiteSpace THEN TrimStart(Tail(text)) ELSE text

\* an optional sign, and the text after it
Signed(text) ==
  IF text # <<>> /\ Head(text) \in {"+", "-"}
  THEN [sign |-> IF Head(text) = "-" THEN -1 ELSE 1, rest |-> Tail(text)]
  ELSE [sign |-> 1, rest |-> text]

NaN == [type |-> "NaN"]

\* the whole number n; a number is kept as a fraction in lowest terms
Number(n) == [type |-> "number", num |-> n, den |-> 1]

\* parseInt(text), radix undefined: white space is skipped, then a sign, then
\* 0x or 0X makes the radix 16; the digits that follow are read and the rest
\* is ignored; NaN without a digit
ParseInt(text) ==
  LET Digital(sign, body, n) == IF n = 0 THEN NaN ELSE Number(sign * Decimal(body, n))
      Hexadecimal(sign, body, n) == IF n = 0 THEN NaN ELSE Number(sign * Hex(body, n))
      Read(s) ==
        IF Len(s.rest) >= 2 /\ s.rest[1] = "0" /\ s.rest[2] \in {"x", "X"}
        THEN Hexadecimal(s.sign, SubSeq(s.rest, 3, Len(s.rest)),
                         HexRun(SubSeq(s.rest, 3, Len(s.rest))))
        ELSE Digital(s.sign, s.rest, DigitRun(s.rest))
  IN  Read(Signed(TrimStart(text)))

RECURSIVE Pow10(_)
Pow10(k) == IF k = 0 THEN 1 ELSE 10 * Pow10(k - 1)

RECURSIVE GCD(_, _)
GCD(a, b) == IF b = 0 THEN a ELSE GCD(b, a % b)

\* the fraction num / den in lowest terms (den > 0)
Fraction(num, den) ==
  LET g == GCD(IF num < 0 THEN -num ELSE num, den)
  IN  [type |-> "number", num |-> num \div g, den |-> den \div g]

\* parseFloat(text): white space is skipped, then a sign, then Infinity or a
\* decimal literal (digits, a point and digits, an exponent) is read and the
\* rest is ignored; NaN without a digit.  The value is the decimal read,
\* exactly (the program rounds it to the nearest double).
ParseFloat(text) ==
  LET Value(sign, mantissa, shift) ==
        IF mantissa = 0 THEN Fraction(0, 1)
        ELSE IF shift >= 0 THEN Fraction(sign * mantissa * Pow10(shift), 1)
        ELSE Fraction(sign * mantissa, Pow10(-shift))
      \* the exponent e reads as
      Power(e) == e.sign * Decimal(e.rest, DigitRun(e.rest))
      \* the exponent part at the head of rest, 0 without one
      ExponentPart(rest) ==
        IF rest # <<>> /\ Head(rest) \in {"e", "E"} THEN Power(Signed(Tail(rest))) ELSE 0
      \* t starts with n digits, then a point and m digits
      Pointed(sign, t, n, m) ==
        IF n = 0 /\ m = 0 THEN NaN
        ELSE Value(sign, Decimal(t, n) * Pow10(m) + Decimal(SubSeq(t, n + 2, Len(t)), m),
                   ExponentPart(SubSeq(t, n + m + 2, Len(t))) - m)
      \* t starts with n digits and no point follows
      Plain(sign, t, n) ==
        IF n = 0 THEN NaN
        ELSE Value(sign, Decimal(t, n), ExponentPart(SubSeq(t, n + 1, Len(t))))
      Literal(sign, t, n) ==
        IF Len(t) > n /\ t[n + 1] = "."
        THEN Pointed(sign, t, n, DigitRun(SubSeq(t, n + 2, Len(t))))
        ELSE Plain(sign, t, n)
      Unsigned(sign, t) ==
        IF Len(t) >= 8 /\ SubSeq(t, 1, 8) = <<"I", "n", "f", "i", "n", "i", "t", "y">>
        THEN [type |-> "number", infinite |-> sign]
        ELSE Literal(sign, t, DigitRun(t))
      Read(s) == Unsigned(s.sign, s.rest)
  IN  Read(Signed(TrimStart(text)))

\* a value as AppState.intensity and AppState.seed are kept: a whole number
\* as an integer, any other value as it is
Whole(v) ==
  IF v.type = "number" /\ "num" \in DOMAIN v /\ v.den = 1 THEN v.num ELSE v

\* String(n) for a natural number n
RECURSIVE NatChars(_)
NatChars(n) ==
  IF n < 10 THEN <<Digits[n + 1]>> ELSE Append(NatChars(n \div 10), Digits[(n % 10) + 1])

\* the digits after the point of rem / den < 1 (den divides a power of ten)
RECURSIVE FractionDigits(_, _)
FractionDigits(rem, den) ==
  IF rem = 0 THEN <<>>
  ELSE <<Digits[((10 * rem) \div den) + 1]>> \o FractionDigits((10 * rem) % den, den)

\* the least k with num * 10^k >= den
RECURSIVE Exponent(_, _)
Exponent(num, den) == IF num >= den THEN 0 ELSE 1 + Exponent(10 * num, den)

\* String(x) for a number x: NaN, Infinity, the decimal text, and below
\* 0.000001 the text with an exponent
NumberChars(v) ==
  IF v.type = "NaN" THEN <<"N", "a", "N">>
  ELSE IF "infinite" \in DOMAIN v
  THEN (IF v.infinite < 0 THEN <<"-">> ELSE <<>>) \o <<"I", "n", "f", "i", "n", "i", "t", "y">>
  ELSE LET abs == IF v.num < 0 THEN -v.num ELSE v.num
           DecimalChars(num, den) ==
             NatChars(num \div den)
               \o (IF num % den # 0 THEN <<".">> \o FractionDigits(num % den, den)
                   ELSE <<>>)
       IN  (IF v.num < 0 THEN <<"-">> ELSE <<>>)
             \o (IF abs > 0 /\ abs <= (v.den - 1) \div 1000000
                 THEN LET k == Exponent(abs, v.den)
                          m == Fraction(abs * Pow10(k), v.den)
                      IN  DecimalChars(m.num, m.den) \o <<"e", "-">> \o NatChars(k)
                 ELSE DecimalChars(abs, v.den))

\* the text of a string of the program
RECURSIVE Concat(_)
Concat(chars) == IF chars = <<>> THEN "" ELSE Head(chars) \o Concat(Tail(chars))

\* the characters of a name a scenario can be asked for by
Chars(name) ==
  LET texts ==
        { <<"d", "d", "o", "s">>, <<"m", "i", "t", "m">>,
          <<"f", "i", "r", "e", "w", "a", "l", "l">>,
          <<"a", "r", "p", "S", "p", "o", "o", "f">>,
          <<"b", "o", "g", "u", "s">>, <<"v", "a", "l", "u", "e", "O", "f">>,
          <<"c", "o", "n", "s", "t", "r", "u", "c", "t", "o", "r">> }
  IN  CHOOSE chars \in texts : Concat(chars) = name

\* String(v) for a value JSON.parse gave
RECURSIVE StringOf(_)
StringOf(v) ==
  CASE v.type \in {"number", "NaN"} -> NumberChars(v)
    [] v.type = "string" -> v.value
    [] v.type = "boolean" -> IF v.value THEN <<"t", "r", "u", "e">> ELSE <<"f", "a", "l", "s", "e">>
    [] v.type = "null" -> <<"n", "u", "l", "l">>
    [] v.type = "array" ->
         IF v.value = <<>> THEN <<>>
         ELSE LET n == Len(v.value)
                  lastOne == IF v.value[n].type = "null" THEN <<>> ELSE StringOf(v.value[n])
              IN  IF n = 1 THEN lastOne
                  ELSE StringOf([type |-> "array", value |-> SubSeq(v.value, 1, n - 1)])
                         \o <<",">> \o lastOne
    [] OTHER -> <<"[", "o", "b", "j", "e", "c", "t", " ", "O", "b", "j", "e", "c", "t", "]">>

(* SessionManager.  A session document is kept as its JSON text, member by
   member: each member is a token with its kind and its characters (the
   members, for an object or an array).  A metric and a chart point are
   written in the unit the model keeps them in (a load in sixths of a
   percent). *)

\* the token JSON.stringify writes for the number v: null for NaN, Infinity
\* and -Infinity
NumberToken(v) ==
  IF v.type = "NaN" \/ "infinite" \in DOMAIN v
  THEN [kind |-> "null"]
  ELSE [kind |-> "number", chars |-> NumberChars(v)]

\* the object literal sessionData of export(), but its timestamp (the wall
\* clock is not kept); metrics is {} without a simulation
SessionData(a, allSims) ==
  [scenario |-> a.currentScenario, seed |-> a.seed, speed |-> a.speed,
   intensity |-> a.intensity,
   metrics |-> IF a.simulation # 0 THEN GetMetrics(allSims[a.simulation]).fields ELSE <<>>,
   chartData |-> a.chartData]

\* JSON.stringify(sessionData, null, 2): the text of the document
JSONStringify(d) ==
  LET \* a setting kept as n / scale, or as the NaN or the infinity it is
      Kept(x, scale) ==
        IF ToString(x) \in {ToString(NaN), ToString([type |-> "number", infinite |-> 1]),
                            ToString([type |-> "number", infinite |-> -1])}
        THEN x
        ELSE Fraction(x, scale)
  IN
  [syntax |-> "object",
   scenario |-> [kind |-> "string", chars |-> Chars(d.scenario)],
   seed |-> NumberToken(Number(d.seed)),
   speed |-> NumberToken(Kept(d.speed, 10)),
   intensity |-> NumberToken(Kept(d.intensity, 1)),
   metrics |-> [kind |-> "object",
                text |-> [f \in DOMAIN d.metrics |-> NumberToken(Number(d.metrics[f]))]],
   chartData |-> [kind |-> "array",
                  text |-> [i \in DOMAIN d.chartData |-> NumberToken(Number(d.chartData[i]))]]]

\* the value JSON.parse gives for a token
RECURSIVE ParseToken(_)
ParseToken(t) ==
  CASE t.kind = "number" -> ParseFloat(t.chars)
    [] t.kind = "string" -> [type |-> "string", value |-> t.chars]
    [] t.kind = "boolean" -> [type |-> "boolean", value |-> t.text = "true"]
    [] t.kind = "null" -> [type |-> "null"]
    [] OTHER -> [type |-> t.kind, value |-> [k \in DOMAIN t.text |-> ParseToken(t.text[k])]]

\* sessionData[key] for the object JSON.parse(text) returns
Member(text, key) ==
  IF key \in DOMAIN text THEN ParseToken(text[key]) ELSE [type |-> "undefined"]

\* a value that "if (v)" and "v || d" take as false
Falsy(v) ==
  \/ v.type \in {"undefined", "null", "NaN"}
  \/ v.type = "number" /\ "num" \in DOMAIN v /\ v.num = 0
  \/ v.type = "string" /\ v.value = <<>>
  \/ v.type = "boolean" /\ ~v.value

\* v || d, for any v and a number d
OrDefault(v, d) == IF Falsy(v) THEN Number(d) ELSE v

\* SimulationController.updateSpeed(value) and updateIntensity(value) on
\* AppState a, for a text value
\* (AppState.speed is kept in tenths when it is a whole number of tenths)
UpdateSpeedCall(a, value) ==
  LET Tenths(v) ==
        IF v.type = "number" /\ "num" \in DOMAIN v /\ (10 * v.num) % v.den = 0
        THEN (10 * v.num) \div v.den
        ELSE v
  IN  [a EXCEPT !.speed = Tenths(ParseFloat(value))]

UpdateIntensityCall(a, value) == [a EXCEPT !.intensity = Whole(ParseInt(value))]

\* the message of import() when it fails
ImportErrorAlert == "Error importing session. Please check the file format."

\* the body of reader.onload for a file of text `text`: the AppState, the
\* Simulation objects and the random source after it, and what alert() showed
ImportCall(a, text) ==
  LET Settings(seed, speed, intensity) ==
        UpdateIntensityCall(UpdateSpeedCall([a EXCEPT !.seed = Whole(seed)], StringOf(speed)),
                            StringOf(intensity))
      Restored(r, chartData) ==
        IF r.threw
        THEN [app |-> r.app, sims |-> r.sims, rng |-> r.rng, alert |-> <<ImportErrorAlert>>]
        ELSE [app |-> IF ~Falsy(chartData) /\ Len(chartData.value) > 0
                      THEN UpdateChart(
                             [r.app EXCEPT !.chartData =
                                [i \in DOMAIN chartData.value |-> Whole(chartData.value[i])]],
                             r.sims)
                      ELSE r.app,
              sims |-> r.sims, rng |-> r.rng, alert |-> <<"Session imported successfully!">>]
  IN  IF text.syntax = "invalid"
      THEN [app |-> a, sims |-> sims, rng |-> rng, alert |-> <<ImportErrorAlert>>]
      ELSE IF Falsy(Member(text, "scenario"))
      THEN [app |-> a, sims |-> sims, rng |-> rng, alert |-> <<>>]
      ELSE Restored(LoadScenarioCall(Settings(OrDefault(Member(text, "seed"), 12345),
                                              OrDefault(Member(text, "speed"), 1),
                                              OrDefault(Member(text, "intensity"), 50)),
                                     Concat(Member(text, "scenario").value)),
                    Member(text, "chartData"))

\* a file the user has saved: the text, and the settings it was exported from
File(a, allSims) ==
  [text |-> JSONStringify(SessionData(a, allSims)),
   from |-> [scenario |-> a.currentScenario, seed |-> a.seed, speed |-> a.speed,
             intensity |-> a.intensity]]

\* where a file's settings are kept, for a file that no export() has written
NotExported == [scenario |-> "none", seed |-> 0, speed |-> 0, intensity |-> 0]

\* the files that no export() has written: text that is no JSON, a document
\* without a scenario, a document naming a scenario that does not exist
\* ('bogus', and 'valueOf', which SCENARIOS inherits)
MalformedFiles ==
  { [text |-> [syntax |-> "invalid"], from |-> NotExported],
    [text |-> [syntax |-> "object", seed |-> NumberToken(Number(42)), speed |-> NumberToken(Number(2)),
               intensity |-> NumberToken(Number(100))],
     from |-> NotExported],
    [text |-> [syntax |-> "object", scenario |-> [kind |-> "string", chars |-> Chars("bogus")],
               seed |-> NumberToken(Number(42)), speed |-> NumberToken(Number(2)),
               intensity |-> NumberToken(Number(100))],
     from |-> NotExported],
    [text |-> [syntax |-> "object", scenario |-> [kind |-> "string", chars |-> Chars("valueOf")],
               seed |-> NumberToken(Number(42)), speed |-> NumberToken(Number(2)),
               intensity |-> NumberToken(Number(100))],
     from |-> NotExported] }

\* a file edited by hand: speed "0.5" and intensity "100" are strings, the
\* second after a no-break space (U+00A0)
EditedFiles ==
  { [text |-> [syntax |-> "object", scenario |-> [kind |-> "string", chars |-> Chars("mitm")],
               seed |-> NumberToken(Number(42)),
               speed |-> [kind |-> "string", chars |-> <<"0", ".", "5">>],
               intensity |-> [kind |-> "string", chars |-> <<" ", "1", "0", "0">>]],
     from |-> NotExported] }

\* the files the user can pick
Files == held.files \cup MalformedFiles \cup EditedFiles

\* the button exportSession: SessionManager.export(); the download is a file
\* the user keeps
Export ==
  /\ Cardinality(held.files) < MaxFiles
  /\ held' = [held EXCEPT !.files = @ \cup {File(app, sims)}]
  /\ last' = Did("Export")
  /\ UNCHANGED <<app, sims, rng, timers, frames, period, nticks, twin, ninputs>>

\* the input fileInput: SessionManager.import(file) sets reader.onload,
\* starts reader.readAsText(file) and returns
Import ==
  /\ Cardinality(held.reads) < MaxReads
  /\ \E file \in Files \ held.reads :
       held' = [held EXCEPT !.reads = @ \cup {file}]
  /\ last' = Did("Import")
  /\ UNCHANGED <<app, sims, rng, timers, frames, period, nticks, twin, ninputs>>

\* reader.onload of a read that has completed, a task of its own
ReaderOnload ==
  /\ Len(sims) < MaxLoads
  /\ \E file \in held.reads :
      \E r \in {ImportCall(app, file.text)} :
        /\ app' = r.app
        /\ sims' = r.sims
        /\ rng' = r.rng
        /\ held' = [held EXCEPT !.reads = @ \ {file}]
        /\ last' = [op |-> "ReaderOnload", timer |-> NoTimer, file |-> file, alert |-> r.alert]
        /\ UNCHANGED <<timers, frames, period, nticks, twin, ninputs>>

\* loadScenario(scenarioName) right after an earlier call of the same
\* handler has left AppState a, the Simulation objects allSims and the
\* random source r
LoadScenarioOn(a, allSims, r, scenarioName) ==
  LET c == FactoryCreate(scenarioName, SetSeed(r, a.seed), timers, Len(allSims) + 1)
  IN  IF c.sim = Null
      THEN [app |-> [a EXCEPT !.currentScenario = scenarioName, !.simulation = 0],
            sims |-> allSims,
            rng |-> c.rng,
            threw |-> TRUE]
      ELSE [app |-> [a EXCEPT !.currentScenario = scenarioName,
                              !.simulation = Len(allSims) + 1],
            sims |-> Append(allSims, c.sim),
            rng |-> c.rng,
            threw |-> FALSE]

\* a click on the card of another scenario: reset(), then
\* loadScenario(scenario)
CardClick ==
  \E scenario \in ScenarioNames :
    /\ scenario # app.currentScenario
    /\ Len(sims) + 1 < MaxLoads
    /\ LET a1 == [PauseCall(app) EXCEPT !.isRunning = FALSE, !.isPaused = FALSE]
       IN  \E r1 \in {LoadScenarioCall(a1, a1.currentScenario)} :
             \E r2 \in {IF r1.threw THEN r1
                         ELSE LoadScenarioOn(UpdateChart([r1.app EXCEPT !.chartData = <<>>],
                                                         r1.sims),
                                             r1.sims, r1.rng, scenario)} :
               /\ app' = r2.app
               /\ sims' = r2.sims
               /\ rng' = r2.rng
    /\ frames' = CancelFrame(app, frames)
    /\ last' = Did("CardClick")
    /\ UNCHANGED <<timers, period, nticks, twin, held, ninputs>>

(* The sliders and the seed input *)

\* what the user has done so far that a bound limits: Simulation objects
\* loaded, input events, files saved and files being read
Handled == Len(sims) + ninputs + Cardinality(held.files) + Cardinality(held.reads)

\* the texts the three inputs are given
SpeedSliderValues == {<<"0", ".", "5">>, <<"2">>}
IntensitySliderValues == {<<"0">>, <<"1", "0", "0">>}
SeedInputValues == {<<"4", "2">>, <<"x">>}

\* the input event of speedSlider: SimulationController.updateSpeed(value)
UpdateSpeed ==
  \E value \in SpeedSliderValues :
    /\ Handled < MaxLoads
    /\ app' = UpdateSpeedCall(app, value)
    /\ ninputs' = ninputs + 1
    /\ last' = Did("UpdateSpeed")
    /\ UNCHANGED <<sims, rng, timers, frames, period, nticks, twin, held>>

\* the input event of intensitySlider:
\* SimulationController.updateIntensity(value)
UpdateIntensity ==
  \E value \in IntensitySliderValues :
    /\ Handled < MaxLoads
    /\ app' = UpdateIntensityCall(app, value)
    /\ ninputs' = ninputs + 1
    /\ last' = Did("UpdateIntensity")
    /\ UNCHANGED <<sims, rng, timers, frames, period, nticks, twin, held>>

\* the change event of seedInput: SimulationController.updateSeed(value),
\* then reset() unless isRunning
SeedChange ==
  \E value \in SeedInputValues :
    LET seed == Whole(OrDefault(ParseInt(value), 12345))
        a0 == [app EXCEPT !.seed = seed]
        r0 == SetSeed(rng, seed)
    IN  IF app.isRunning
        THEN /\ Handled < MaxLoads
             /\ app' = a0
             /\ rng' = r0
             /\ ninputs' = ninputs + 1
             /\ last' = Did("SeedChange")
             /\ UNCHANGED <<sims, timers, frames, period, nticks, twin, held>>
        ELSE /\ Handled + 1 < MaxLoads
             /\ LET a1 == [PauseCall(a0) EXCEPT !.isRunning = FALSE, !.isPaused = FALSE]
                IN  \E r \in {LoadScenarioOn(a1, sims, r0, a1.currentScenario)} :
                      /\ app' = IF r.threw THEN r.app
                                ELSE UpdateChart([r.app EXCEPT !.chartData = <<>>], r.sims)
                      /\ sims' = r.sims
                      /\ rng' = r.rng
             /\ frames' = CancelFrame(a0, frames)
             /\ ninputs' = ninputs + 1
             /\ last' = Did("SeedChange")
             /\ UNCHANGED <<timers, period, nticks, twin, held>>

----------------------------------------------------------------------------
(* Specifications *)

\* AppState as declared, after SimulationController.init() has loaded a
\* scenario; the chart exists (ChartManager.init())
AppState(scenarioName, seed, intensity) ==
  [currentScenario |-> scenarioName, isRunning |-> FALSE, isPaused |-> FALSE,
   speed |-> 10, intensity |-> intensity, seed |-> seed, simulation |-> 1,
   animationId |-> 0, chartData |-> <<>>, chartUpdateCounter |-> 0]

NoTwin == [sim |-> AttackSimulation("ddos"), rng |-> SeededRandom(12345), timers |-> <<>>,
           period |-> 16]

\* no caller holds a snapshot, the user has saved no file
NoHeld == [snapshots |-> <<>>, files |-> {}, reads |-> {}]

\* the application with AppState a (scenario, seed, speed and intensity
\* chosen) and its scenario loaded, before Start
Loaded(a, ms) ==
  LET c == FactoryCreate(a.currentScenario, SeededRandom(a.seed), <<>>, 1)
  IN  /\ app = a
      /\ sims = <<c.sim>>
      /\ rng = c.rng
      /\ timers = <<>>
      /\ frames = {}
      /\ period = ms
      /\ nticks = 0
      /\ last = Did("init")

\* The engine under its driver: one simulation run from Start on
Init ==
  \E scenarioName \in ScenarioNames, seed \in Seeds, speed \in Speeds,
     intensity \in Intensities, ms \in Periods :
    /\ Loaded([AppState(scenarioName, seed, intensity) EXCEPT !.speed = speed], ms)
    /\ twin = NoTwin
    /\ held = NoHeld
    /\ ninputs = 0

Next == Start \/ Animate \/ FireTimer

Spec == Init /\ [][Next]_vars

\* The whole driver: initApp() with the declared AppState, then the buttons
\* and keys, frames and timers in any order
InitApp ==
  \E ms \in Periods :
    /\ Loaded(AppState("ddos", 12345, 50), ms)
    /\ twin = NoTwin
    /\ held = NoHeld
    /\ ninputs = 0

AppStart == nticks < MaxAppTicks /\ Start

\* SimulationController.start() while running and not paused: the early
\* return
StartRunning ==
  /\ app.isRunning /\ ~app.isPaused
  /\ last' = Did("StartRunning")
  /\ UNCHANGED <<app, sims, rng, timers, frames, period, nticks, twin, held, ninputs>>

AppAnimate == nticks < MaxAppTicks /\ Animate

AppReset == Handled < MaxLoads /\ Reset

AppLoadScenario == Handled < MaxLoads /\ LoadScenario

AppCardClick == Handled + 1 < MaxLoads /\ CardClick

AppExport == Handled < MaxLoads /\ Export

AppImport == Handled < MaxLoads /\ Import

NextApp ==
  \/ AppStart \/ StartRunning \/ AppAnimate \/ FireTimer
  \/ Pause \/ AppReset \/ AppLoadScenario \/ AppCardClick
  \/ UpdateSpeed \/ UpdateIntensity \/ SeedChange
  \/ AppExport \/ AppImport \/ ReaderOnload

SpecApp == InitApp /\ [][NextApp]_vars

\* Two engines of the same scenario and seed, fed the same update() calls by
\* a caller, each at its own real cadence
InitTwin ==
  \E scenarioName \in ScenarioNames, seed \in Seeds, intensity \in Intensities,
     ms \in Periods, msTwin \in Periods :
    /\ Loaded(AppState(scenarioName, seed, intensity), ms)
    /\ twin = [sim |-> sims[1], rng |-> rng, timers |-> <<>>, period |-> msTwin]
    /\ held = NoHeld
    /\ ninputs = 0

TwinCtx == [sim |-> twin.sim, rng |-> twin.rng, timers |-> twin.timers, self |-> 1]

\* update(16, 1.0, intensity) on both engines
TwinUpdate ==
  /\ nticks < MaxTwinTicks
  /\ \A i \in DOMAIN timers : timers[i].left > period
  /\ \A i \in DOMAIN twin.timers : twin.timers[i].left > twin.period
  /\ LET c == Update(Ctx(1, Elapse(timers, period)), 16, app.speed, app.intensity)
         d == Update([TwinCtx EXCEPT !.timers = Elapse(@, twin.period)], 16, app.speed,
                     app.intensity)
     IN  /\ sims' = [sims EXCEPT ![1] = c.sim]
         /\ rng' = c.rng
         /\ timers' = c.timers
         /\ twin' = [twin EXCEPT !.sim = d.sim, !.rng = d.rng, !.timers = d.timers]
  /\ nticks' = nticks + 1
  /\ last' = Did("TwinUpdate")
  /\ UNCHANGED <<app, frames, period, held, ninputs>>

\* a callback of the first engine falls due
TwinFireFirst ==
  \E i \in Due(timers, TRUE, period) :
    LET c == Callback(Ctx(1, Remove(timers, i)), timers[i])
    IN  /\ sims' = [sims EXCEPT ![1] = c.sim]
        /\ rng' = c.rng
        /\ timers' = c.timers
        /\ last' = [op |-> "TwinFireFirst", timer |-> timers[i]]
        /\ UNCHANGED <<app, frames, period, nticks, twin, held, ninputs>>

\* a callback of the second engine falls due
TwinFireSecond ==
  \E i \in Due(twin.timers, TRUE, twin.period) :
    LET d == Callback([TwinCtx EXCEPT !.timers = Remove(@, i)], twin.timers[i])
    IN  /\ twin' = [twin EXCEPT !.sim = d.sim, !.rng = d.rng, !.timers = d.timers]
        /\ last' = [op |-> "TwinFireSecond", timer |-> twin.timers[i]]
        /\ UNCHANGED <<app, sims, rng, timers, frames, period, nticks, held, ninputs>>

NextTwin == TwinUpdate \/ TwinFireFirst \/ TwinFireSecond

SpecTwin == InitTwin /\ [][NextTwin]_vars

\* The classes called directly: a caller holds one SeededRandom (rng) and one
\* simulation reference (sims, empty when null) and calls the methods of the
\* generator and the factory in any order.  twin.rng is a reference generator:
\* constructed afresh (new SeededRandom(seed)) each time the generator under
\* test is restarted by reset() or setSeed(), and fed the same draws since.
UnitSeeds == Seeds \cup {12648, 13046}    \* next() = 0.0011..., 0.9984... there
UnitBounds == {<<-2, 0>>, <<-2, 3>>, <<0, 0>>, <<3, 3>>}
LargeBounds == {<<-1, -1>>, <<-2, -1>>}    \* 2^53 - 1 and 2^53 - 2, as distances from 2^53
UnitItems == {<<>>, <<[id |-> "a"]>>, <<[id |-> "a"], [id |-> "b"], [id |-> "c"]>>}
UnitScenarioNames == ScenarioNames \cup {"bogus", "constructor", "valueOf"}

InitUnit ==
  \E seed \in UnitSeeds :
    /\ app = [AppState("ddos", seed, 50) EXCEPT !.simulation = 0]
    /\ sims = <<>>
    /\ rng = SeededRandom(seed)
    /\ twin = [NoTwin EXCEPT !.rng = SeededRandom(seed)]
    /\ held = NoHeld
    /\ ninputs = 0
    /\ timers = <<>>
    /\ frames = {}
    /\ period = 16
    /\ nticks = 0
    /\ last = Did("init")

\* what a call leaves in last: the method, its arguments, the value it
\* returned, the value the reference generator returned to the same call, and
\* the method called before; base is "2^53" when the integers among the
\* arguments and the result are given as distances from 2^53
Called(op, args, result, fresh) ==
  [op |-> op, timer |-> NoTimer, args |-> args, result |-> result, fresh |-> fresh,
   prev |-> last.op, base |-> "0"]

\* a drawing method has returned d on the generator and e on the reference
Drawn(op, args, d, e) ==
  /\ nticks < MaxUnitCalls
  /\ nticks' = nticks + 1
  /\ rng' = d.rng
  /\ twin' = [twin EXCEPT !.rng = e.rng]
  /\ last' = Called(op, args, d.val, e.val)
  /\ UNCHANGED <<app, sims, timers, frames, period, held, ninputs>>

\* rng.next()
CallNext == Drawn("next", <<>>, RngNext(rng), RngNext(twin.rng))

\* rng.range(min, max)
CallRange ==
  \E b \in UnitBounds : Drawn("range", b, RngRange(rng, b[1], b[2]), RngRange(twin.rng, b[1], b[2]))

\* rng.int(min, max)
CallInt ==
  \E b \in UnitBounds : Drawn("int", b, RngInt(rng, b[1], b[2]), RngInt(twin.rng, b[1], b[2]))

\* rng.int(min, max) on integers just below 2^53
CallIntLarge ==
  \E b \in LargeBounds :
    LET d == RngIntLarge(rng, b[1], b[2])
        e == RngIntLarge(twin.rng, b[1], b[2])
    IN  /\ nticks < MaxUnitCalls
        /\ nticks' = nticks + 1
        /\ rng' = d.rng
        /\ twin' = [twin EXCEPT !.rng = e.rng]
        /\ last' = [Called("int", b, d.val, e.val) EXCEPT !.base = "2^53"]
        /\ UNCHANGED <<app, sims, timers, frames, period, held, ninputs>>

\* rng.choice(items)
CallChoice ==
  \E items \in UnitItems : Drawn("choice", items, RngChoice(rng, items), RngChoice(twin.rng, items))

\* rng.reset()
CallReset ==
  /\ nticks < MaxUnitCalls
  /\ nticks' = nticks + 1
  /\ rng' = RngReset(rng)
  /\ twin' = [twin EXCEPT !.rng = SeededRandom(twin.rng.originalSeed)]
  /\ last' = Called("reset", <<>>, Undefined, Undefined)
  /\ UNCHANGED <<app, sims, timers, frames, period, held, ninputs>>

\* rng.setSeed(newSeed)
CallSetSeed ==
  \E newSeed \in UnitSeeds :
    /\ nticks < MaxUnitCalls
    /\ nticks' = nticks + 1
    /\ rng' = SetSeed(rng, newSeed)
    /\ twin' = [twin EXCEPT !.rng = SeededRandom(newSeed)]
    /\ last' = Called("setSeed", <<newSeed>>, Undefined, Undefined)
    /\ UNCHANGED <<app, sims, timers, frames, period, held, ninputs>>

\* simulation = SimulationFactory.create(scenarioName, rng, 800, 600)
CallCreate ==
  \E scenarioName \in UnitScenarioNames :
    LET c == FactoryCreate(scenarioName, rng, timers, 1)
        e == FactoryCreate(scenarioName, twin.rng, timers, 1)
    IN  /\ nticks < MaxUnitCalls
        /\ nticks' = nticks + 1
        /\ sims' = IF c.sim = Null THEN <<>> ELSE <<c.sim>>
        /\ rng' = c.rng
        /\ twin' = [twin EXCEPT !.rng = e.rng]
        /\ timers' = c.timers
        /\ last' = Called("create", <<scenarioName>>, c.console, e.console)
        /\ UNCHANGED <<app, frames, period, held, ninputs>>

NextUnit ==
  \/ CallNext \/ CallRange \/ CallInt \/ CallIntLarge \/ CallChoice
  \/ CallReset \/ CallSetSeed \/ CallCreate

SpecUnit == InitUnit /\ [][NextUnit]_vars

\* The engine under a driver that keeps running: the animation frame that
\* animate() requests is delivered by the platform, and so is every timer
InitLive ==
  \E scenarioName \in ScenarioNames, seed \in Seeds, ms \in {16, 600} :
    /\ Loaded(AppState(scenarioName, seed, 100), ms)
    /\ twin = NoTwin
    /\ held = NoHeld
    /\ ninputs = 0

\* start() or the frame callback can run and call update(): the guards of
\* Start and Animate (once started the driver is running and not paused)
UpdateDue ==
  /\ nticks < MaxTicks
  /\ \/ ~(app.isRunning /\ ~app.isPaused)
     \/ frames # {} /\ \A i \in DOMAIN timers : timers[i].left > period

\* the step of Start or Animate, as far as the count of update() calls goes
Updated == UpdateDue /\ nticks' = nticks + 1

\* update() keeps being called: a frame that can run does run, and a timer
\* that is due fires
SpecLive == InitLive /\ [][Next]_vars /\ WF_nticks(Updated) /\ WF_vars(FireTimer)

\* Sessions: the application as initApp() leaves it, the user holding one
\* file that export() wrote in an earlier session with other settings
SessionSeeds == {42}
SessionSettings == {<<0, 0>>, <<20, 0>>, <<20, 100>>}    \* speed (tenths), intensity

InitSession ==
  \E scenarioName \in ScenarioNames, seed \in SessionSeeds, setting \in SessionSettings :
    LET a == [AppState(scenarioName, seed, setting[2]) EXCEPT !.speed = setting[1]]
        c == FactoryCreate(scenarioName, SeededRandom(seed), <<>>, 1)
    IN  /\ Loaded(AppState("ddos", 12345, 50), 16)
        /\ twin = NoTwin
        /\ held = [NoHeld EXCEPT !.files = {File(a, <<c.sim>>)}]
        /\ ninputs = 0

SessionStart == nticks < MaxSessionTicks /\ Start

SessionAnimate == nticks < MaxSessionTicks /\ Animate

NextSession ==
  SessionStart \/ SessionAnimate \/ FireTimer \/ Reset \/ Export \/ Import \/ ReaderOnload

SpecSession == InitSession /\ [][NextSession]_vars

\* A caller of the simulation next to the driver: it calls getMetrics() and
\* keeps what is returned, writes to what it holds, and calls createPacket
WrittenFields == {"packetsSent"}

InitHold ==
  \E scenarioName \in ScenarioNames, seed \in Seeds :
    /\ Loaded(AppState(scenarioName, seed, 100), 600)
    /\ twin = NoTwin
    /\ held = NoHeld
    /\ ninputs = 0

HoldStart == nticks < MaxHoldTicks /\ Start

HoldAnimate == nticks < MaxHoldTicks /\ Animate

\* the properties read through the i-th object of hs, with simulations allSims
HeldFields(hs, allSims, i) ==
  IF hs[i].object.own THEN allSims[hs[i].of].metrics ELSE hs[i].object.fields

\* snapshot = simulation.getMetrics(), kept by the caller
HoldMetrics ==
  /\ Len(held.snapshots) < MaxHeld
  /\ held' = [held EXCEPT !.snapshots = Append(@, [of |-> Cur, object |-> GetMetrics(sims[Cur])])]
  /\ last' = Did("getMetrics")
  /\ UNCHANGED <<app, sims, rng, timers, frames, period, nticks, twin, ninputs>>

\* snapshot[f] = -1 on a snapshot held: the assignment writes the object
\* the caller holds, which is the simulation's own or a separate one
WriteHeld ==
  \E i \in DOMAIN held.snapshots, f \in WrittenFields :
    LET h == held.snapshots[i]
    IN  /\ HeldFields(held.snapshots, sims, i)[f] # -1
        /\ IF h.object.own
           THEN /\ sims' = [sims EXCEPT ![h.of].metrics[f] = -1]
                /\ held' = held
           ELSE /\ held' = [held EXCEPT !.snapshots[i].object.fields[f] = -1]
                /\ sims' = sims
        /\ last' = [op |-> "write", timer |-> NoTimer, snapshot |-> i]
        /\ UNCHANGED <<app, rng, timers, frames, period, nticks, twin, ninputs>>

\* simulation.createPacket(source, target, 'normal', 1.0) called by the
\* caller between two frames, on the first two nodes
HoldCreatePacket ==
  /\ nticks < MaxHoldTicks
  /\ nticks' = nticks + 1
  /\ sims' = [sims EXCEPT ![Cur] = CreatePacket(@, @.nodes[1].id, @.nodes[2].id, "normal", 10)]
  /\ last' = Did("createPacket")
  /\ UNCHANGED <<app, rng, timers, frames, period, twin, held, ninputs>>

NextHold == HoldStart \/ HoldAnimate \/ FireTimer \/ HoldMetrics \/ WriteHeld \/ HoldCreatePacket

SpecHold == InitHold /\ [][NextHold]_vars

----------------------------------------------------------------------------
(* Properties *)

TypeOK ==
  /\ app.simulation \in 0..Len(sims)
  /\ nticks \in 0..MaxTicks
  /\ rng.seed >= rng.originalSeed
  /\ \A i \in DOMAIN timers : timers[i].owner \in DOMAIN sims /\ timers[i].left >= 0

Counters(sim) ==
  <<sim.metrics.packetsSent, sim.metrics.packetsReceived, sim.metrics.packetsDropped,
    sim.metrics.packetsBlocked>>

\* C1: conservation. In every simulation, every packet ever created is still
\* active in the live collection or counted once as received, dropped or
\* blocked: packetsSent = active + packetsReceived + packetsDropped +
\* packetsBlocked.
C1_Conservation ==
  \A g \in DOMAIN sims :
    LET m == sims[g].metrics
    IN  m.packetsSent = ActivePackets(sims[g]) + m.packetsReceived + m.packetsDropped
                          + m.packetsBlocked

\* C2: a packet whose progress reaches 1 through Packet.update() is counted as
\* received: in MITM and ARPSpoof packetsReceived equals the number of such
\* packets, and in every variant packetsReceived is positive once a packet
\* has completed its travel.
C2_ArrivedIsReceived ==
  \A g \in DOMAIN sims :
    LET s == sims[g]
    IN  /\ s.scenario \in {"mitm", "arpSpoof"} => s.metrics.packetsReceived = s.hist.arrived
        /\ s.hist.arrived > 0 => s.metrics.packetsReceived > 0

\* C3: determinism. Two simulations of the same scenario and seed fed the same
\* update() calls have the same packets and the same metrics after every
\* call, whenever their deferred callbacks fire.
C3_Determinism ==
  last.op = "TwinUpdate" =>
    /\ sims[1].packets = twin.sim.packets
    /\ sims[1].metrics = twin.sim.metrics

\* C4: a deferred callback that fires after its simulation has been replaced
\* (reset or scenario switch) creates no packet, changes no metric and draws
\* nothing from the random source.
C4_StaleCallbackNoOp ==
  [][(last'.op = "FireTimer" /\ last'.timer.owner # app.simulation)
       => (sims' = sims /\ rng' = rng)]_vars

\* the driver is paused or stopped
Quiet == app.isPaused \/ ~app.isRunning

\* C5: while the driver stays paused (after pause(), before the next start())
\* or stopped (after reset()), the active simulation creates and deactivates
\* no packet and none of its four counters changes.
C5_PauseCancelsCallbacks ==
  [][(Quiet /\ Quiet' /\ Cur # 0 /\ app'.simulation = Cur)
       => (sims'[Cur].packets = sims[Cur].packets
           /\ Counters(sims'[Cur]) = Counters(sims[Cur]))]_vars

\* C6: counter monotonicity. The four counters of a simulation are 0 before
\* its first update() and never decrease across any step.
C6_CountersMonotone ==
  /\ [](nticks = 0 => \A g \in DOMAIN sims : Counters(sims[g]) = <<0, 0, 0, 0>>)
  /\ [][\A g \in DOMAIN sims :
          \A k \in 1..4 : Counters(sims'[g])[k] >= Counters(sims[g])[k]]_vars

\* packets have been sent, some were dropped, and the live list has shrunk
C6_Witness ==
  \E g \in DOMAIN sims :
    /\ sims[g].metrics.packetsDropped > 0
    /\ sims[g].metrics.packetsSent > Len(sims[g].packets) + sims[g].metrics.packetsDropped

\* C7: bounds. serverLoad is within [0, 100] and every active packet has its
\* progress within [0, 1).
C7_Bounds ==
  \A g \in DOMAIN sims :
    /\ sims[g].metrics.serverLoad >= 0
    /\ sims[g].metrics.serverLoad <= 100 * LoadScale
    /\ \A i \in DOMAIN sims[g].packets :
         sims[g].packets[i].active =>
           sims[g].packets[i].progress >= 0 /\ sims[g].packets[i].progress < 1000

\* the load is at its cap with more active packets than the cap stands for,
\* and an active packet is one step from arriving
C7_Witness ==
  \E g \in DOMAIN sims :
    /\ sims[g].metrics.serverLoad = 100 * LoadScale
    /\ ActivePackets(sims[g]) > 50
    /\ \E i \in DOMAIN sims[g].packets :
         /\ sims[g].packets[i].active
         /\ sims[g].packets[i].progress + sims[g].packets[i].speed >= 1000

\* the packets of sim created since the packet-id counter stood at counter
Fresh(sim, counter) == {i \in DOMAIN sim.packets : sim.packets[i].id >= counter}

\* C8 (state): packetsSent equals packetIdCounter, and the ids of the live
\* packets are below the counter and strictly increasing in creation order.
C8_IdsInOrder ==
  \A g \in DOMAIN sims :
    LET s == sims[g]
    IN  /\ s.metrics.packetsSent = s.packetIdCounter
        /\ \A i \in DOMAIN s.packets : s.packets[i].id < s.packetIdCounter
        /\ \A i, j \in DOMAIN s.packets : i < j => s.packets[i].id < s.packets[j].id

\* C8 (step): the packets a step creates take the next ids, sit at the end of
\* the live collection, are active with progress 0 at their source, and each
\* adds exactly 1 to packetsSent; a relay callback, which only calls
\* createPacket, creates one packet and changes no other metric.
C8_CreateStep ==
  \A g \in DOMAIN sims :
    LET old == sims[g]
        new == sims'[g]
        fresh == Fresh(new, old.packetIdCounter)
    IN  /\ Cardinality(fresh) = new.packetIdCounter - old.packetIdCounter
        /\ new.metrics.packetsSent = old.metrics.packetsSent + Cardinality(fresh)
        /\ \A i \in fresh :
             /\ i > Len(new.packets) - Cardinality(fresh)
             /\ new.packets[i].id = old.packetIdCounter + (i - (Len(new.packets) - Cardinality(fresh))) - 1
             /\ new.packets[i].active
             /\ new.packets[i].progress = 0
             /\ new.packets[i].ease = 0
        /\ (last'.op = "FireTimer" /\ last'.timer.action = "relay" /\ last'.timer.owner = g) =>
             /\ Cardinality(fresh) = 1
             /\ new.packets = Append(old.packets, new.packets[Len(new.packets)])
             /\ new.packets[Len(new.packets)].source = last'.timer.source
             /\ new.metrics = [old.metrics EXCEPT !.packetsSent = @ + 1]

\* C8: createPacket allocates the next id, appends an active packet with
\* progress 0 at its source and adds exactly 1 to packetsSent and nothing to
\* the other metrics; so packetsSent = packetIdCounter always and ids are
\* unique and strictly increasing in creation order.
C8_CreatePacket == []C8_IdsInOrder /\ [][C8_CreateStep]_vars

\* a relay has just created a packet after earlier packets were swept
C8_Witness ==
  /\ last.op = "FireTimer"
  /\ last.timer.action = "relay"
  /\ Len(sims[1].packets) >= 2
  /\ sims[1].packetIdCounter > Len(sims[1].packets) + 2

NodeType(sim, id) ==
  LET hits == SelectSeq(sim.nodes, LAMBDA n : n.id = id)
  IN  IF hits = <<>> THEN Undefined.id ELSE hits[1].type

\* C9 (step): what one firewall decision does
C9_DecideStep ==
  (last'.op = "FireTimer" /\ last'.timer.action = "decide") =>
    LET t == last'.timer
        old == sims[t.owner]
        new == sims'[t.owner]
        n == Len(old.packets)
        blocks ==
          /\ t.isAttack
          /\ NodeType(old, t.from) = "attacker"
          /\ new.metrics = [old.metrics EXCEPT !.packetsBlocked = @ + 1]
          /\ new.packetIdCounter = old.packetIdCounter
          /\ Len(new.packets) = n
          /\ \A i \in 1..n :
               IF old.packets[i].id = t.packet
               THEN new.packets[i] = [old.packets[i] EXCEPT !.type = "blocked", !.active = FALSE]
               ELSE new.packets[i] = old.packets[i]
        forwards ==
          /\ new.metrics = [old.metrics EXCEPT !.packetsSent = @ + 1]
          /\ new.packetIdCounter = old.packetIdCounter + 1
          /\ Len(new.packets) = n + 1
          /\ \A i \in 1..n : new.packets[i] = old.packets[i]
          /\ new.packets[n + 1].source = "firewall"
          /\ new.packets[n + 1].target = "server"
          /\ new.packets[n + 1].type = t.type
          /\ t.type = (IF NodeType(old, t.from) = "attacker" THEN "attack" ELSE "normal")
          /\ \A i \in 1..n : old.packets[i].id = t.packet => old.packets[i].type = t.type
    IN  (blocks \/ forwards) /\ ~(blocks /\ forwards)

\* C9 (state): only packets sent by attacker nodes are ever marked blocked
C9_OnlyAttackersBlocked ==
  \A g \in DOMAIN sims :
    \A i \in DOMAIN sims[g].packets :
      sims[g].packets[i].type = "blocked" =>
        NodeType(sims[g], sims[g].packets[i].source) = "attacker"

\* C9: a firewall decision either blocks the packet it was scheduled for
\* (only if its source is an attacker: kind 'blocked', inactive,
\* packetsBlocked + 1, no packet created) or forwards one new packet
\* firewall -> server of the same kind (packetsBlocked unchanged); a packet
\* from a legitimate client is never blocked.
C9_FirewallDecision == []C9_OnlyAttackersBlocked /\ [][C9_DecideStep]_vars

\* a decision has just blocked a live packet, and an earlier one forwarded
C9_Witness ==
  /\ last.op = "FireTimer"
  /\ last.timer.action = "decide"
  /\ \E i \in DOMAIN sims[1].packets :
       sims[1].packets[i].id = last.timer.packet /\ sims[1].packets[i].type = "blocked"
  /\ \E i \in DOMAIN sims[1].packets : sims[1].packets[i].source = "firewall"

\* the callbacks simulation g has scheduled that have not fired yet
Pending(g) == {i \in DOMAIN timers : timers[i].owner = g}

\* C10 (state): the traffic of MITM and the account of its relays
C10_RelayAccount ==
  \A g \in DOMAIN sims :
    sims[g].scenario = "mitm" =>
      LET s == sims[g]
      IN  /\ \A i \in DOMAIN s.packets :
               s.packets[i].type = "normal" =>
                 /\ s.packets[i].source \in {"client1", "client2"}
                 /\ s.packets[i].target = "attacker"
          /\ s.hist.attack <= s.hist.normal
          /\ s.hist.normal = s.hist.attack + Cardinality(Pending(g))
          /\ Pending(g) = {} => s.hist.attack = s.hist.normal
          /\ \A i \in Pending(g) :
               /\ timers[i].action = "relay"
               /\ timers[i].delay = 500
               /\ timers[i].from \in {"client1", "client2"}

\* C10 (step): a relay that fires creates exactly one 'attack' packet, from
\* the attacker to the client that did not send the packet it answers
C10_RelayStep ==
  (last'.op = "FireTimer" /\ sims[last'.timer.owner].scenario = "mitm") =>
    LET t == last'.timer
        old == sims[t.owner]
        new == sims'[t.owner]
        p == new.packets[Len(new.packets)]
    IN  /\ new.packetIdCounter = old.packetIdCounter + 1
        /\ new.hist.attack = old.hist.attack + 1
        /\ new.hist.normal = old.hist.normal
        /\ p.id = old.packetIdCounter
        /\ p.type = "attack"
        /\ p.source = "attacker"
        /\ p.target \in {"client1", "client2"} \ {t.from}

\* C10: in MITM every 'normal' packet goes from a client to the attacker and
\* is answered, when its relay fires, by exactly one 'attack' packet from the
\* attacker to the other client; the 'attack' packets created never exceed
\* the 'normal' ones, and they are as many once every relay has fired.
C10_MITMRelay == []C10_RelayAccount /\ [][C10_RelayStep]_vars

\* several relays have fired and none is pending
C10_Witness ==
  /\ sims[1].scenario = "mitm"
  /\ last.op = "FireTimer"
  /\ Pending(1) = {}
  /\ sims[1].hist.attack >= 2
  /\ sims[1].hist.attack = sims[1].hist.normal

\* the callbacks simulation g schedules in the step, among the timers after it
Scheduled(g) ==
  {i \in DOMAIN timers' : timers'[i].owner = g /\ timers'[i].packet >= sims[g].packetIdCounter}

\* C11 (state): every reroute of ARPSpoof still pending goes from a client
\* through the attacker to another client
C11_RerouteAccount ==
  \A g \in DOMAIN sims :
    sims[g].scenario = "arpSpoof" =>
      /\ \A i \in Pending(g) :
           /\ timers[i].action = "relay"
           /\ timers[i].delay = 400
           /\ timers[i].source = "attacker"
           /\ timers[i].type = "attack"
           /\ NodeType(sims[g], timers[i].from) = "client"
           /\ NodeType(sims[g], timers[i].target) = "client"
           /\ timers[i].from # timers[i].target
      /\ \A i \in DOMAIN sims[g].packets :
           sims[g].packets[i].type = "normal" =>
             /\ NodeType(sims[g], sims[g].packets[i].source) = "client"
             /\ sims[g].packets[i].target = "attacker"

\* C11 (step): a reroute is scheduled together with its 'normal' packet
\* source -> attacker, created in the same step; when it fires it creates
\* one 'attack' packet attacker -> the target chosen then, which is not the
\* source
C11_RerouteStep ==
  \A g \in DOMAIN sims :
    sims[g].scenario = "arpSpoof" =>
      LET old == sims[g]
          new == sims'[g]
          fresh == Fresh(new, old.packetIdCounter)
      IN  /\ \A i \in Scheduled(g) :
               \E k \in fresh :
                 /\ new.packets[k].id = timers'[i].packet
                 /\ new.packets[k].type = "normal"
                 /\ new.packets[k].source = timers'[i].from
                 /\ new.packets[k].target = "attacker"
          /\ \A k \in fresh :
               new.packets[k].type = "normal" =>
                 Cardinality({i \in Scheduled(g) : timers'[i].packet = new.packets[k].id}) = 1
          /\ (last'.op = "FireTimer" /\ last'.timer.owner = g) =>
               LET p == new.packets[Len(new.packets)]
               IN  /\ new.packetIdCounter = old.packetIdCounter + 1
                   /\ p.id = old.packetIdCounter
                   /\ p.type = "attack"
                   /\ p.source = "attacker"
                   /\ p.target = last'.timer.target
                   /\ p.target # last'.timer.from

\* C11: in ARPSpoof, rerouted legitimate traffic has distinct source and
\* target clients: the 'normal' packet goes source -> attacker at once and the
\* later 'attack' packet goes attacker -> that same target; no rerouted flow
\* has its source as its target.
C11_ARPSpoofReroute == []C11_RerouteAccount /\ [][C11_RerouteStep]_vars

\* a reroute has just fired while others, scheduled later, are pending
C11_Witness ==
  /\ sims[1].scenario = "arpSpoof"
  /\ last.op = "FireTimer"
  /\ Pending(1) # {}
  /\ sims[1].hist.normal >= 3
  /\ sims[1].packets[Len(sims[1].packets)].target = last.timer.target

\* the live packets of sim that are not active
Inactive(sim) == {i \in DOMAIN sim.packets : ~sim.packets[i].active}

\* C12 (step): what one update() of DDoS drops.  Progress above 0.9 is 900
\* thousandths or more: the sum of 45 steps of 0.02 is 0.9000000000000005.
C12_DropStep ==
  \A g \in DOMAIN sims :
    (sims[g].scenario = "ddos" /\ nticks' = nticks + 1) =>
      LET old == sims[g]
          new == sims'[g]
          dropped == new.metrics.packetsDropped - old.metrics.packetsDropped
      IN  /\ dropped = Cardinality(Inactive(new))
          /\ dropped > 0 => new.metrics.serverLoad > 80 * LoadScale
          /\ \A i \in Inactive(new) :
               /\ new.packets[i].progress >= 900
               /\ new.packets[i].progress < 1000
               /\ new.packets[i].type = "attack"
               /\ \E j \in DOMAIN old.packets :
                    /\ old.packets[j].id = new.packets[i].id
                    /\ old.packets[j].active
                    /\ new.packets[i].progress = old.packets[j].progress + old.packets[j].speed
          /\ \A j \in Inactive(old) :
               \A i \in DOMAIN new.packets : new.packets[i].id # old.packets[j].id
          /\ new.metrics.packetsReceived - old.metrics.packetsReceived
               <= new.hist.arrived - old.hist.arrived
          /\ dropped > 0 => new.metrics.packetsReceived = old.metrics.packetsReceived

\* C12: DDoS drop rule. packetsDropped is incremented only for a packet
\* that is active with progress above 0.9 in a tick whose serverLoad exceeds
\* 80; each drop sets the packet inactive and adds exactly 1 to
\* packetsDropped, and a dropped packet is never also counted as received.
C12_DDoSDropRule == [][C12_DropStep]_vars

\* a tick has just dropped a packet, after earlier drops, under full load
C12_Witness ==
  /\ sims[1].scenario = "ddos"
  /\ last.op = "Animate"
  /\ Inactive(sims[1]) # {}
  /\ sims[1].metrics.packetsDropped > Cardinality(Inactive(sims[1]))
  /\ sims[1].metrics.serverLoad > 80 * LoadScale

\* the divisor of the load in each variant's updateMetrics
Divisor(scenarioName) ==
  CASE scenarioName = "ddos" -> 50
    [] scenarioName = "mitm" -> 20
    [] scenarioName = "firewall" -> 30
    [] scenarioName = "arpSpoof" -> 40

\* min(100, 100 * a / divisor), in sixths of a percent
LoadOf(a, divisor) ==
  IF a * 100 * LoadScale < 100 * LoadScale * divisor
  THEN (a * 100 * LoadScale) \div divisor
  ELSE 100 * LoadScale

\* C13 as stated: after every update() call serverLoad is min(100, 100 * A / D)
\* with A the active packets of the live collection at the end of the call.
C13_LoadAtEndOfCall ==
  [][\A g \in DOMAIN sims :
       (nticks' = nticks + 1 /\ g = Cur) =>
         sims'[g].metrics.serverLoad =
           LoadOf(ActivePackets(sims'[g]), Divisor(sims'[g].scenario))]_vars

\* C13 (amended): after every update() call serverLoad is
\* min(100, 100 * A / D) with D the variant's divisor and A the active
\* packets of the live collection when updateMetrics computes the load, after
\* the sweep and the generation of the call and before the drop pass of DDoS:
\* the active packets at the end of the call plus the packets that call
\* dropped. It is recomputed from the packets each tick, not accumulated.
C13_LoadWhenComputed ==
  [][\A g \in DOMAIN sims :
       (nticks' = nticks + 1 /\ g = Cur) =>
         sims'[g].metrics.serverLoad =
           LoadOf(ActivePackets(sims'[g])
                    + (sims'[g].metrics.packetsDropped - sims[g].metrics.packetsDropped),
                  Divisor(sims'[g].scenario))]_vars

\* a tick of DDoS has computed full load and then dropped below 50 active
\* packets
C13_Witness ==
  /\ sims[1].scenario = "ddos"
  /\ last.op = "Animate"
  /\ sims[1].metrics.serverLoad = 100 * LoadScale
  /\ Inactive(sims[1]) # {}
  /\ ActivePackets(sims[1]) < 50

\* the nodes initialize() builds in each variant
NodeCount(scenarioName) ==
  CASE scenarioName = "ddos" -> 1 + SCENARIOS.ddos.attackers
    [] scenarioName = "mitm" -> 3
    [] scenarioName = "firewall" ->
         2 + SCENARIOS.firewall.attackers + SCENARIOS.firewall.legitimateClients
    [] scenarioName = "arpSpoof" -> SCENARIOS.arpSpoof.nodes + 1

\* C14 (step): what SimulationFactory.create returns for a recognised id
C14_CreateStep ==
  (last'.op = "create" /\ last'.args[1] \in ScenarioNames) =>
    LET scenarioName == last'.args[1]
        s == sims'[1]
    IN  /\ Len(sims') = 1
        /\ last'.result = <<>>
        /\ s.scenario = scenarioName
        /\ Len(s.nodes) = NodeCount(scenarioName)
        /\ rng'.seed = rng.seed + (IF scenarioName = "firewall" THEN NodeCount(scenarioName) - 2 ELSE 0)
        /\ rng'.originalSeed = rng.originalSeed
        /\ s.packets = <<>>
        /\ s.metrics = [packetsSent |-> 0, packetsReceived |-> 0, packetsDropped |-> 0,
                        packetsBlocked |-> 0, serverLoad |-> 0, latency |-> 0]
        /\ s.packetIdCounter = 0
        /\ s.time = 0
        /\ timers' = timers
        /\ scenarioName = "ddos" =>
             /\ Cardinality({i \in DOMAIN s.nodes : s.nodes[i].type = "server"}) = 1
             /\ Cardinality({i \in DOMAIN s.nodes : s.nodes[i].type = "attacker"})
                  = SCENARIOS.ddos.attackers
             /\ \A i \in DOMAIN s.nodes :
                  \/ s.nodes[i].type = "server" /\ s.nodes[i].id = "server"
                  \/ s.nodes[i].type = "attacker" /\ s.nodes[i].connections = <<"server">>

\* C14: SimulationFactory.create with one of the four recognised ids
\* constructs the matching variant and calls initialize() exactly once; for
\* 'ddos' the simulation holds exactly 1 server node with id 'server' plus
\* scenario.attackers attacker nodes, each connected to exactly ['server'],
\* no packets and all-zero counters.
C14_FactoryCreate == [][C14_CreateStep]_vars

\* the factory has just returned a DDoS simulation to a caller whose
\* generator had already been drawn from
C14_Witness ==
  /\ last.op = "create"
  /\ last.args = <<"ddos">>
  /\ rng.seed > rng.originalSeed
  /\ Len(sims) = 1
  /\ Len(sims[1].nodes) = 31

\* C15: SimulationFactory.create with an id that is not one of the defined
\* scenarios returns null and signals the unknown scenario; no simulation is
\* constructed or initialized and the random source is not advanced.
C15_UnknownScenario ==
  [][(last'.op = "create" /\ last'.args[1] \notin ScenarioNames) =>
       (sims' = <<>> /\ last'.result # <<>> /\ rng' = rng)]_vars

\* the methods of SeededRandom that draw
DrawOps == {"next", "range", "int", "choice"}

\* C16 (state): every value drawn is the value the reference generator,
\* constructed afresh at the last restart, returns to the same call
C16_SameAsFresh == last.op \in DrawOps => last.result = last.fresh

\* C16 (step): reset() restarts at originalSeed; setSeed(t) overwrites both
\* seed and originalSeed
C16_Restart ==
  /\ last'.op = "reset" => rng' = [seed |-> rng.originalSeed, originalSeed |-> rng.originalSeed]
  /\ last'.op = "setSeed" => rng' = [seed |-> last'.args[1], originalSeed |-> last'.args[1]]

\* C16: reproducibility. After any number of draws, reset() followed by n
\* draws yields the n outputs of a freshly constructed generator with the
\* same seed; setSeed(t) overwrites both seed and originalSeed, so a later
\* reset() restarts the stream at t, not at the constructor's seed.
C16_Reproducibility == []C16_SameAsFresh /\ [][C16_Restart]_vars

\* after setSeed(t) with t other than the constructor's seed, reset() and one
\* next(): the value drawn is the first of the stream of t
C16_Witness ==
  /\ last.op = "next"
  /\ last.prev = "reset"
  /\ nticks = 4
  /\ rng.originalSeed # app.seed
  /\ last.result = SinFrac(rng.originalSeed)

\* C17 (step): what one draw does
C17_DrawStep ==
  last'.op \in DrawOps =>
    /\ rng'.seed = rng.seed + 1
    /\ rng'.originalSeed = rng.originalSeed
    /\ last'.op = "next" => last'.result \in 0..(Million - 1)
    /\ last'.op = "int" => last'.result \in last'.args[1]..last'.args[2]
    /\ (last'.op = "choice" /\ last'.args # <<>>) =>
         \E i \in DOMAIN last'.args : last'.args[i] = last'.result

\* C17: each call of next(), range(), int() or choice() advances the seed by
\* exactly 1; for integers min <= max, int(min, max) is an integer within
\* [min, max], whatever next() returns; choice on a non-empty sequence
\* returns one of its elements.
C17_Draws == [][C17_DrawStep]_vars

\* C18: choice(items) fails with an EmptyInput condition when items is empty,
\* instead of returning a value.
C18_EmptyChoiceFails ==
  (last.op = "choice" /\ last.args = <<>>) => last.result = [error |-> "EmptyInput"]

\* the places of the live collection of sim that hold the packet with this id
Holding(sim, id) == {i \in DOMAIN sim.packets : sim.packets[i].id = id}

\* C19 (step): what a step does to each packet of the live collection.  In a
\* step that calls update() every packet gets one Packet.update(); the other
\* steps (callbacks) call it on none.
C19_PacketStep ==
  \A g \in DOMAIN sims :
    \A j \in DOMAIN sims[g].packets :
     \A now \in {Holding(sims'[g], sims[g].packets[j].id)} :
      LET p == sims[g].packets[j]
          updated == nticks' = nticks + 1 /\ g = Cur
      IN  /\ Cardinality(now) <= 1
          /\ \A i \in now :
               LET q == sims'[g].packets[i]
               IN  /\ q.active => p.active
                   /\ q.speed = p.speed
                   /\ q.progress = IF updated THEN p.progress + p.speed ELSE p.progress
                   /\ q.progress < 1000
          /\ (updated /\ p.active /\ p.progress + p.speed < 1000) => now # {}
          /\ (updated /\ p.active /\ p.progress + p.speed >= 1000) => now = {}
          /\ (updated /\ ~p.active) => now = {}
          /\ ~updated => now # {}

\* C19 (step): the packets Packet.update() deactivates are the active ones
\* it brings to progress 1 or more
C19_ArriveStep ==
  \A g \in DOMAIN sims :
    sims'[g].hist.arrived - sims[g].hist.arrived =
      IF nticks' = nticks + 1 /\ g = Cur
      THEN Cardinality({j \in DOMAIN sims[g].packets :
                          /\ sims[g].packets[j].active
                          /\ sims[g].packets[j].progress + sims[g].packets[j].speed >= 1000})
      ELSE 0

\* C19: packet lifecycle. While a packet is active each Packet.update()
\* raises its progress by exactly speed * 0.01; the first update that brings
\* progress to 1 or more sets active to false; an inactive packet is never
\* updated further (update returns false, so the sweep removes it with its
\* progress unchanged) and no operation sets active back to true.
C19_PacketLifecycle == [][C19_PacketStep /\ C19_ArriveStep]_vars

\* in Firewall packets have completed their travel, others were blocked, and
\* the tick just made has swept the inactive ones
C19_Witness ==
  /\ sims[1].scenario = "firewall"
  /\ last.op = "Animate"
  /\ sims[1].hist.arrived >= 2
  /\ sims[1].metrics.packetsBlocked >= 2
  /\ Inactive(sims[1]) = {}
  /\ sims[1].packets # <<>>

\* the frame durations handed to update(): 0 by start(), then the period
DeltaTimes == {0} \cup Periods

\* the smallest integer not below (intensity / 100) * packetsPerSecond * 0.016
SlotsExpected(scenarioName, intensity) ==
  CHOOSE n \in 0..10 :
    /\ n * 100000 >= intensity * SCENARIOS[scenarioName].packetsPerSecond * 16
    /\ (n - 1) * 100000 < intensity * SCENARIOS[scenarioName].packetsPerSecond * 16

\* the spawn slots the update() of a step has tried, counted from its draws:
\* a slot draws once (twice in ARPSpoof) and once more if it creates a
\* packet; updateMetrics draws once in MITM and ARPSpoof, and in DDoS under
\* load above 80 once for every packet past progress 0.9
SlotsTried(old, new, draws) ==
  LET created == new.packetIdCounter - old.packetIdCounter
      late == Cardinality({i \in DOMAIN new.packets : new.packets[i].progress >= 900})
  IN  CASE new.scenario = "ddos" ->
             draws - created - (IF new.metrics.serverLoad > 80 * LoadScale THEN late ELSE 0)
        [] new.scenario = "mitm" -> draws - created - 1
        [] new.scenario = "firewall" -> draws - created
        [] new.scenario = "arpSpoof" -> (draws - created - 1) \div 2

\* C20 (step): what one update(deltaTime, speed, intensity) does
C20_UpdateStep ==
  (nticks' = nticks + 1) =>
    LET old == sims[Cur]
        new == sims'[Cur]
        deltaTime == IF last'.op = "Start" THEN 0 ELSE period
        before == IF last'.op = "Start" THEN timers ELSE Elapse(timers, period)
        slots == SlotsExpected(old.scenario, app.intensity)
    IN  /\ new.time = old.time + deltaTime * app.speed
        /\ SlotsTried(old, new, rng'.seed - rng.seed) = slots
        /\ new.packetIdCounter - old.packetIdCounter <= slots
        /\ app.intensity = 0 => slots = 0
        /\ \A j \in DOMAIN old.packets :
             (old.packets[j].active /\ old.packets[j].progress + old.packets[j].speed < 1000) =>
               \E i \in Holding(new, old.packets[j].id) :
                 new.packets[i].progress = old.packets[j].progress + old.packets[j].speed
        /\ \A dt \in DeltaTimes :
             \A c \in {Update(Ctx(Cur, before), dt, app.speed, app.intensity)} :
               /\ c.sim = [new EXCEPT !.time = old.time + dt * app.speed]
               /\ c.rng = rng'
               /\ c.timers = timers'
        /\ \A sp \in Speeds :
             \A c \in {Update(Ctx(Cur, before), deltaTime, sp, app.intensity)} :
               /\ c.sim = [new EXCEPT !.time = old.time + deltaTime * sp]
               /\ c.rng = rng'
               /\ c.timers = timers'

\* C20: in update(deltaTime, speed, intensity) elapsed time advances by
\* deltaTime * speed and nothing else depends on deltaTime or speed: the spawn
\* slots tried are the smallest integer not below
\* (intensity / 100) * packetsPerSecond * 0.016 (none at intensity 0), each
\* slot creates at most one synchronous packet, and every live packet advances
\* by exactly one Packet.update step whatever deltaTime and speed are.
C20_FrameIndependence == [][C20_UpdateStep]_vars

\* a tick of 600 ms at speed 2.0 and intensity 100 has just created two
\* packets of DDoS and advanced the others
C20_Witness ==
  /\ sims[1].scenario = "ddos"
  /\ last.op = "Animate"
  /\ period = 600
  /\ app.speed = 20
  /\ app.intensity = 100
  /\ sims[1].time = nticks * 600 * 20 - 600 * 20
  /\ Len(sims[1].packets) > 10
  /\ sims[1].packets[Len(sims[1].packets) - 1].progress = 0

\* C21 (step): getMetrics() returns an object equal to the current metrics
\* and changes nothing; what is read through a snapshot already held is the
\* same after any step but a write to that snapshot; a write to a snapshot
\* leaves every simulation and every other snapshot as they were
C21_SnapshotStep ==
  /\ last'.op = "getMetrics" =>
        /\ sims' = sims
        /\ LET n == Len(held'.snapshots)
           IN  HeldFields(held'.snapshots, sims', n) = sims[held'.snapshots[n].of].metrics
  /\ \A i \in DOMAIN held.snapshots :
        (last'.op = "write" /\ last'.snapshot = i) \/
          HeldFields(held'.snapshots, sims', i) = HeldFields(held.snapshots, sims, i)
  /\ last'.op = "write" => sims' = sims

\* C21: getMetrics() returns a copy of the six metric fields equal to the
\* current metrics at the time of the call; later update() ticks,
\* createPacket calls and deferred callbacks do not change a snapshot already
\* held, and writing to a held snapshot does not change the simulation's
\* metrics.
C21_Snapshot == [][C21_SnapshotStep]_vars

\* a snapshot taken before the first frame and written to since is held
\* next to a later one, while the simulation's metrics have moved on twice
C21_Witness ==
  /\ Len(held.snapshots) = 2
  /\ held.snapshots[1].object.fields.packetsSent = -1
  /\ held.snapshots[1].object.fields.serverLoad = 0
  /\ held.snapshots[2].object.fields.packetsSent > 0
  /\ sims[Cur].metrics.packetsSent > held.snapshots[2].object.fields.packetsSent
  /\ sims[Cur].metrics.serverLoad > 0
  /\ last.op = "FireTimer"

\* the ids of the nodes of a collection
NodeIds(nodes) == {nodes[i].id : i \in DOMAIN nodes}

\* C22 (state): in every simulation node ids are pairwise distinct and every
\* entry of every node's connections is the id of a node of the collection
C22_WellFormed ==
  \A g \in DOMAIN sims :
    LET nodes == sims[g].nodes
    IN  /\ Len(nodes) = NodeCount(sims[g].scenario)
        /\ Cardinality(NodeIds(nodes)) = Len(nodes)
        /\ \A i \in DOMAIN nodes :
             \A k \in DOMAIN nodes[i].connections : nodes[i].connections[k] \in NodeIds(nodes)

\* C22 (step): no step adds, removes or modifies a node
C22_NodesStep == \A g \in DOMAIN sims : sims'[g].nodes = sims[g].nodes

\* C22: static, well-formed topology. After initialize() in each of the four
\* variants node ids are pairwise distinct and every entry of every node's
\* connections is the id of a node in the same collection; update(),
\* createPacket and the deferred callbacks never add, remove or modify a node.
C22_StaticTopology == []C22_WellFormed /\ [][C22_NodesStep]_vars

\* Firewall with its 17 nodes, after updates, created packets and a firewall
\* decision that has just let a packet through to the server
C22_Witness ==
  /\ sims[Cur].scenario = "firewall"
  /\ Len(sims[Cur].nodes) = 17
  /\ nticks > 40
  /\ last.op = "FireTimer"
  /\ \E i \in DOMAIN sims[Cur].packets :
       sims[Cur].packets[i].target = "server" /\ sims[Cur].packets[i].progress = 0

\* C23: importing a session document that is malformed (unparseable JSON, a
\* document without a scenario field, or a document naming an unknown
\* scenario) surfaces an error to the user and leaves the current state
\* untouched: AppState.currentScenario, seed, speed, intensity, the active
\* simulation instance and chartData are the same as before the import.
C23_MalformedImport ==
  [][(last'.op = "ReaderOnload" /\ last'.file \in MalformedFiles) =>
       /\ last'.alert = <<ImportErrorAlert>>
       /\ app'.currentScenario = app.currentScenario
       /\ app'.seed = app.seed
       /\ app'.speed = app.speed
       /\ app'.intensity = app.intensity
       /\ app'.simulation = app.simulation
       /\ sims' = sims
       /\ app'.chartData = app.chartData]_vars

\* C24: export/import round trip. For every scenario id, seed, speed >= 0
\* and intensity in [0,100], importing the document produced by
\* SessionManager.export() restores exactly the exported scenario, seed,
\* speed and intensity in AppState and loads a simulation of that scenario
\* with the random source reseeded to that seed.
C24_RoundTrip ==
  [][(last'.op = "ReaderOnload" /\ last'.file \in held.files
         /\ last'.file.from.scenario \in ScenarioNames) =>
       /\ app'.currentScenario = last'.file.from.scenario
       /\ app'.seed = last'.file.from.seed
       /\ app'.speed = last'.file.from.speed
       /\ app'.intensity = last'.file.from.intensity
       /\ app'.simulation = Len(sims) + 1
       /\ sims'[app'.simulation].scenario = last'.file.from.scenario
       /\ rng'.originalSeed = last'.file.from.seed]_vars

\* the ids packets can have within MaxTicks updates
PacketIds == 0..(2 * MaxTicks)

\* ceil(100 / speed), the update calls a packet of that speed travels for
\* (speed in tenths)
Travel(speed) == (1000 + speed - 1) \div speed

\* the packet of id k is in the live collection
Live(k) == Holding(sims[Cur], k) # {}

\* the packets of the live collection whose travel ends within the updates
\* explored
InTime ==
  {i \in DOMAIN sims[Cur].packets :
     sims[Cur].hist.born[sims[Cur].packets[i].id + 1] + Travel(sims[Cur].packets[i].speed)
       <= MaxTicks}

\* C25 (state): a packet of the live collection was created fewer than
\* ceil(100 / speed) update calls ago
C25_Bound ==
  \A g \in DOMAIN sims :
    \A i \in DOMAIN sims[g].packets :
      LET p == sims[g].packets[i]
      IN  /\ p.id + 1 \in DOMAIN sims[g].hist.born
          /\ sims[g].hist.updates - sims[g].hist.born[p.id + 1] < Travel(p.speed)
          /\ Travel(p.speed) = CASE p.speed = 20 -> 50 [] p.speed = 15 -> 67 [] p.speed = 10 -> 100

\* C25: liveness. Provided update() keeps being called, every packet ever
\* created eventually leaves the live collection, and it does so no later
\* than ceil(100 / speed) update calls after its creation (50 for speed 2,
\* 67 for speed 1.5, 100 for speed 1); the live collection never retains a
\* packet forever.
C25_Liveness == []C25_Bound /\ <>[](InTime = {})

\* ARPSpoof has made 100 updates since it created a packet of speed 1, which
\* left the live collection in the last of them
C25_Witness ==
  /\ sims[Cur].scenario = "arpSpoof"
  /\ \E k \in PacketIds :
       /\ k + 1 \in DOMAIN sims[Cur].hist.born
       /\ sims[Cur].hist.updates = sims[Cur].hist.born[k + 1] + 100
       /\ ~Live(k)
       /\ \A j \in 0..(k - 1) : ~Live(j)
       /\ sims[Cur].hist.arrived > 0
  /\ last.op = "Animate"

\* the packets of sim that the sweep of the next update() keeps: the active
\* ones that one more step leaves short of progress 1
Survivors(sim) ==
  {j \in DOMAIN sim.packets :
     sim.packets[j].active /\ sim.packets[j].progress + sim.packets[j].speed < 1000}

\* C26 (step): what the live collection and the load are after one update():
\* the packets the sweep has kept, each advanced by one step, in their order,
\* followed by the packets generated in the call, still at progress 0; the
\* load is computed from the active packets of both groups
C26_OrderStep ==
  (nticks' = nticks + 1) =>
    LET old == sims[Cur]
        new == sims'[Cur]
        kept == Cardinality(Survivors(old))
        created == new.packetIdCounter - old.packetIdCounter
    IN  /\ Len(new.packets) = kept + created
        /\ \A i \in 1..kept :
             /\ new.packets[i].id < old.packetIdCounter
             /\ new.packets[i].progress > 0
        /\ \A i \in (kept + 1)..(kept + created) :
             /\ new.packets[i].id = old.packetIdCounter + (i - kept) - 1
             /\ new.packets[i].progress = 0
             /\ new.packets[i].active
        /\ new.metrics.serverLoad = LoadOf(kept + created, Divisor(new.scenario))

\* C26: step order inside one update(). Existing packets are advanced and
\* deactivated ones removed first, then new packets are generated, then
\* metrics are computed; so a packet created synchronously in a tick still
\* has progress 0 at the end of that tick and is included in that tick's
\* active-packet count for serverLoad, and a packet removed by the sweep is
\* not included.
C26_StepOrder == [][C26_OrderStep]_vars

\* a tick of MITM has swept a packet that had travelled its 67 updates and
\* created another, which the load counts with the packets kept
C26_Witness ==
  /\ sims[Cur].scenario = "mitm"
  /\ last.op = "Animate"
  /\ LET n == Len(sims[Cur].packets)
     IN  /\ n > 1
         /\ sims[Cur].packets[n].progress = 0
         /\ sims[Cur].hist.born[sims[Cur].packets[n].id + 1] = sims[Cur].hist.updates
         /\ sims[Cur].metrics.serverLoad = LoadOf(n, 20)
  /\ \E k \in PacketIds :
       /\ k + 1 \in DOMAIN sims[Cur].hist.born
       /\ sims[Cur].hist.born[k + 1] + 67 = sims[Cur].hist.updates
       /\ ~Live(k)

\* C27 (state): no packet of a live collection has progress >= 1, and the
\* inactive ones are packets DDoS has dropped or Firewall has blocked
NoneArrived(sim) ==
  \A i \in DOMAIN sim.packets :
    /\ sim.packets[i].progress < 1000
    /\ ~sim.packets[i].active =>
          \/ sim.scenario = "ddos" /\ sim.packets[i].progress >= 900
          \/ sim.scenario = "firewall" /\ sim.packets[i].type = "blocked"

\* C27 (step): the simulation on which update() runs updateMetrics, after
\* its sweep and its generation, has no packet with progress >= 1 either
C27_MetricsStep ==
  (nticks' = nticks + 1) =>
    \A c \in {[Ctx(Cur, timers) EXCEPT !.sim = SweepPackets(@)]} :
      NoneArrived(GeneratePackets(c, app.intensity).sim)

\* C27: in every state in which updateMetrics runs (and in every state
\* between ticks), no packet in the live collection has progress >= 1: a
\* packet is removed by the same filter pass in which its progress reaches
\* 1, so the only inactive packets that can sit in the live collection are
\* ones force-deactivated early (DDoS drop, Firewall block) with progress < 1.
C27_NoArrivedPacketLive ==
  [](\A g \in DOMAIN sims : NoneArrived(sims[g])) /\ [][C27_MetricsStep]_vars

\* DDoS under overload has just dropped a packet past 0.9, which stays in
\* the live collection, inactive, next to packets that arrived and were swept
C27_Witness ==
  /\ sims[Cur].scenario = "ddos"
  /\ last.op = "Animate"
  /\ sims[Cur].hist.arrived > 0
  /\ \E i \in DOMAIN sims[Cur].packets :
       /\ ~sims[Cur].packets[i].active
       /\ sims[Cur].packets[i].progress \in 900..999
  /\ sims[Cur].metrics.packetsReceived = 0

\* C28 (state): the shape of every packet of the live collection, where
\* every packet is from its creation on
C28_Shape ==
  \A g \in DOMAIN sims :
    \A i \in DOMAIN sims[g].packets :
      LET p == sims[g].packets[i]
          from == NodeType(sims[g], p.source)
          to == NodeType(sims[g], p.target)
      IN  CASE sims[g].scenario = "ddos" ->
                 p.type = "attack" /\ from = "attacker" /\ p.target = "server"
            [] sims[g].scenario \in {"mitm", "arpSpoof"} ->
                 \/ p.source = "attacker" /\ to = "client"
                 \/ p.target = "attacker" /\ from = "client"
            [] sims[g].scenario = "firewall" ->
                 /\ p.target = "server" => p.source = "firewall"
                 /\ from \in {"client", "attacker"} => p.target = "firewall"
                 /\ from \in {"client", "attacker", "firewall"}

\* C28 (step): a packet enters the live collection by createPacket only, at
\* its end, and its source and target never change afterwards
C28_ShapeStep ==
  \A g \in DOMAIN sims :
    \A i \in DOMAIN sims'[g].packets :
      LET q == sims'[g].packets[i]
      IN  \/ q.id >= sims[g].packetIdCounter
          \/ \E j \in Holding(sims[g], q.id) :
               sims[g].packets[j].source = q.source /\ sims[g].packets[j].target = q.target

\* C28: traffic shape per variant holds for every packet ever created. In
\* DDoS every packet is kind 'attack' from an attacker node to the server; in
\* MITM and ARPSpoof the attacker node is the source or the target of every
\* packet (no direct client-to-client packet); in Firewall every packet whose
\* target is the server has the firewall as its source, and every packet
\* sent by a client or attacker node targets the firewall.
C28_TrafficShape == []C28_Shape /\ [][C28_ShapeStep]_vars

\* Firewall carries at once a packet from a client to the firewall, a packet
\* from an attacker to the firewall and a packet the firewall has let
\* through to the server
C28_Witness ==
  /\ sims[Cur].scenario = "firewall"
  /\ \E i, j, k \in DOMAIN sims[Cur].packets :
       /\ NodeType(sims[Cur], sims[Cur].packets[i].source) = "client"
       /\ NodeType(sims[Cur], sims[Cur].packets[j].source) = "attacker"
       /\ sims[Cur].packets[k].source = "firewall"
       /\ sims[Cur].packets[k].target = "server"
       /\ sims[Cur].packets[k].type = "normal"

\* the decision that has just fired has counted a packet as blocked
Blocking ==
  /\ last'.op = "FireTimer"
  /\ last'.timer.action = "decide"
  /\ sims'[last'.timer.owner].metrics.packetsBlocked =
       sims[last'.timer.owner].metrics.packetsBlocked + 1

\* C29: in Firewall, whenever packetsBlocked is incremented for a packet,
\* that packet is still in the live collection with progress below 1: a
\* packet that has completed its travel and been swept is never afterwards
\* counted as blocked.
C29_BlockedWhileLive ==
  [][Blocking =>
       \E i \in Holding(sims[last'.timer.owner], last'.timer.packet) :
         sims[last'.timer.owner].packets[i].progress < 1000]_vars

\* C30 (state): the pending animation frame, if any, is the one AppState
\* holds the id of, and the driver is then running and not paused
C30_OneFrame ==
  /\ Cardinality(frames) <= 1
  /\ frames # {} => (frames = {app.animationId} /\ app.isRunning /\ ~app.isPaused)

\* C30 (step): update() runs once, on the current simulation, in start() or
\* in a frame callback, with isRunning set and isPaused clear; start() on a
\* running, unpaused driver changes nothing
C30_DriverStep ==
  /\ \A g \in DOMAIN sims :
       sims'[g].hist.updates # sims[g].hist.updates =>
         /\ g = app.simulation
         /\ sims'[g].hist.updates = sims[g].hist.updates + 1
         /\ app'.isRunning /\ ~app'.isPaused
         /\ last'.op \in {"Start", "Animate"}
         /\ last'.op = "Animate" => (app.isRunning /\ ~app.isPaused)
  /\ (last'.op \in {"Start", "StartRunning"} /\ app.isRunning /\ ~app.isPaused) =>
       UNCHANGED <<app, sims, rng, timers, frames, nticks>>

\* C30: for any sequence of start(), pause(), reset(), loadScenario() and
\* keyboard/button events, at most one animation-frame callback is pending
\* at any time, and update() is invoked by the driver only when isRunning
\* and not isPaused; calling start() while already running and not paused
\* changes nothing.
C30_SingleDriver == []C30_OneFrame /\ [][C30_DriverStep]_vars

\* start() has just returned early on a driver that was paused and
\* restarted on a second simulation, its one frame pending
C30_Witness ==
  /\ last.op = "StartRunning"
  /\ Cardinality(frames) = 1
  /\ nticks >= 2
  /\ app.simulation >= 2

\* C31: counters are scenario-specific. packetsDropped is 0 in every
\* reachable state of MITM, Firewall and ARPSpoof, packetsBlocked is 0 in
\* every reachable state of DDoS, MITM and ARPSpoof, and no packet has kind
\* 'blocked' outside the Firewall variant.
C31_ScenarioCounters ==
  \A g \in DOMAIN sims :
    /\ sims[g].scenario # "ddos" => sims[g].metrics.packetsDropped = 0
    /\ sims[g].scenario # "firewall" =>
         /\ sims[g].metrics.packetsBlocked = 0
         /\ \A i \in DOMAIN sims[g].packets : sims[g].packets[i].type # "blocked"

\* ARPSpoof under full load (the load past which DDoS drops), with an active
\* packet past 0.9 of its travel and relays fired: nothing dropped or blocked
C31_Witness ==
  /\ sims[Cur].scenario = "arpSpoof"
  /\ last.op = "FireTimer"
  /\ sims[Cur].metrics.serverLoad > 80 * LoadScale
  /\ \E i \in DOMAIN sims[Cur].packets :
       sims[Cur].packets[i].active /\ sims[Cur].packets[i].progress > 900
  /\ sims[Cur].metrics.packetsDropped = 0
  /\ sims[Cur].metrics.packetsBlocked = 0

====
